---------------------------- MODULE Spec2Model ----------------------------
(***************************************************************************)
(* Decision core of the multi-horizon equity analysis service              *)
(* (app/service.py, app/technicals.py, app/governor.py, app/executor.py,   *)
(* app/risk.py, app/ai.py).                                                *)
(*                                                                         *)
(* Numbers.  The code computes in binary floating point.  The model uses   *)
(* fixed point with three decimals: a price, an indicator, a score, a      *)
(* percentage or a confidence x is the integer 1000*x ("milli").  Every    *)
(* input is chosen so that the quantities compared against a threshold are *)
(* exact at that resolution.  max_capital_at_risk, which the code rounds   *)
(* to four decimals, is kept in units of 0.0001.                           *)
(*                                                                         *)
(* Optional values.  Python's None is the empty sequence <<>>, a present   *)
(* value v is <<v>>.                                                       *)
(***************************************************************************)
EXTENDS Integers, Sequences, FiniteSets, TLC

None == << >>
Some(v) == << v >>
IsNone(x) == x = << >>
IsSome(x) == x # << >>
Val(x) == x[1]

\* Python truthiness of an Optional[float]: None and 0.0 are falsy.
Truthy(x) == IsSome(x) /\ Val(x) # 0

\* x if x else d   (Optional[float] x, default d)
OrElse(x, d) == IF Truthy(x) THEN Val(x) ELSE d

Abs(x) == IF x < 0 THEN -x ELSE x
Min(a, b) == IF a < b THEN a ELSE b
Max(a, b) == IF a > b THEN a ELSE b
Clamp(v, lo, hi) == Max(lo, Min(hi, v))

\* Quotient of a by b > 0, truncated towards zero.
QuoT(a, b) == IF a >= 0 THEN a \div b ELSE -((-a) \div b)

\* Quotient of a by b > 0 rounded to the nearest integer, ties to even
\* (Python's round()).
RoundDiv(a, b) ==
    LET q == a \div b
        r == a - q * b
    IN  IF 2 * r < b THEN q
        ELSE IF 2 * r > b THEN q + 1
        ELSE IF q % 2 = 0 THEN q ELSE q + 1

\* round(x, 1) of a milli value x, result again in milli.
\* round(x, 2) of a milli value: to the nearest multiple of 0.01
Round2(x) == RoundDiv(x, 10) * 10

Round1(x) == RoundDiv(x, 100) * 100

Horizons == {"intraday", "swing", "positional", "longterm"}

(***************************************************************************)
(* app/technicals.py : calculate_advanced_technicals.                      *)
(* The indicator series themselves (RSI, MACD, ADX, ...) are library       *)
(* computations over the bars; the model takes their values in the latest  *)
(* row of the frame as the input (None = NaN) and models what the function *)
(* does with that row: ATR percent, pivots, trend structure, poison        *)
(* nulling and the NaN -> None conversion.                                 *)
(***************************************************************************)

\* a > b / a < b on possibly-NaN operands: any comparison with NaN is False.
NanGt(a, b) == IsSome(a) /\ IsSome(b) /\ Val(a) > Val(b)
NanLt(a, b) == IsSome(a) /\ IsSome(b) /\ Val(a) < Val(b)

calculate_advanced_technicals(row) ==
    LET price   == Some(row.Close)
        atr_pct == IF IsSome(row.ATR) THEN Some(QuoT(Val(row.ATR) * 100000, row.Close)) ELSE None
        pivot2  == QuoT(2 * (row.High + row.Low + row.Close), 3)
        adx     == IF IsSome(row.ADX) THEN Val(row.ADX) ELSE 0
        above_all == NanGt(price, row.EMA_20) /\ NanGt(price, row.EMA_50) /\ NanGt(price, row.EMA_200)
        below_all == NanLt(price, row.EMA_20) /\ NanLt(price, row.EMA_50) /\ NanLt(price, row.EMA_200)
        ema_trend == IF adx < 20000 THEN "Neutral / Transition"
                     ELSE IF above_all THEN "Bullish"
                     ELSE IF below_all THEN "Bearish"
                     ELSE IF NanGt(price, row.EMA_200) /\ NanGt(row.EMA_50, row.EMA_200) THEN "Bullish"
                     ELSE IF NanLt(price, row.EMA_200) /\ NanLt(row.EMA_50, row.EMA_200) THEN "Bearish"
                     ELSE "Neutral"
        cci_final == IF IsNone(row.CCI) \/ Abs(Val(row.CCI)) > 500000 THEN None ELSE row.CCI
        vol_ratio_final == IF IsNone(row.Volume_Ratio) \/ Val(row.Volume_Ratio) < 0
                              \/ Val(row.Volume_Ratio) > 50000
                           THEN None ELSE row.Volume_Ratio
    IN  [ rsi            |-> row.RSI,
          rsi_signal     |-> IF IsSome(row.RSI) /\ Val(row.RSI) < 30000 THEN "Bullish"
                             ELSE IF IsSome(row.RSI) /\ Val(row.RSI) > 70000 THEN "Bearish"
                             ELSE "Neutral",
          macd_histogram |-> row.MACD_Histogram,
          adx            |-> row.ADX,
          atr            |-> row.ATR,
          atr_percent    |-> atr_pct,
          cci            |-> cci_final,
          bb_position    |-> row.BB_Position,
          support_s1     |-> Some(pivot2 - row.High),
          resistance_r1  |-> Some(pivot2 - row.Low),
          volume_avg_20d |-> row.Volume_MA_20,
          volume_ratio   |-> vol_ratio_final,
          ema_20         |-> row.EMA_20,
          ema_50         |-> row.EMA_50,
          ema_200        |-> row.EMA_200,
          trend_structure |-> ema_trend ]

(***************************************************************************)
(* app/technicals.py : calculate_algo_signal.                              *)
(* Weights are kept in hundredths (0.35 -> 35, 0.35*0.6 -> 21).            *)
(***************************************************************************)

\* norm(val, current_min, current_max) for a present val, clamped to +-100.
norm(val, current_min, current_max) ==
    IF current_max = current_min THEN 0
    ELSE Clamp(-100000 + QuoT((val - current_min) * 200, (current_max - current_min) \div 1000),
               -100000, 100000)

calculate_algo_signal(technicals) ==
    LET has_trend == IsSome(technicals.adx) /\ IsSome(technicals.ema_50) /\ IsSome(technicals.ema_200)
        trend_raw == (IF technicals.trend_structure = "Bullish" THEN 1 ELSE -1) * 40000
                     + (IF Val(technicals.ema_50) > Val(technicals.ema_200) THEN 1 ELSE -1) * 40000
                     + QuoT(Val(technicals.adx), 5)
        trend_val == IF has_trend THEN Clamp(trend_raw, -100000, 100000) ELSE 0
        has_rsi   == IsSome(technicals.rsi)
        has_macd  == IsSome(technicals.macd_histogram)
        has_cci   == IsSome(technicals.cci)
        momentum_base == QuoT(70000 - Val(technicals.rsi), 2) + Val(technicals.macd_histogram) * 10
        momentum_val ==
            IF has_rsi /\ has_macd
            THEN IF has_cci
                 THEN norm(momentum_base + QuoT(Val(technicals.cci), 2), -200000, 200000)
                 ELSE norm(momentum_base, -100000, 100000)
            ELSE 0
        momentum_w == IF has_rsi /\ has_macd THEN (IF has_cci THEN 35 ELSE 21) ELSE 0
        has_atr   == IsSome(technicals.atr_percent)
        volatility_val == IF has_atr
                          THEN norm(100000 - Val(technicals.atr_percent) * 20, -100000, 100000)
                          ELSE 0
        has_vol   == IsSome(technicals.volume_ratio)
        volume_val == IF has_vol
                      THEN Clamp((Val(technicals.volume_ratio) - 1000) * 50, -50000, 50000)
                      ELSE 0
        valid_weights == (IF has_trend THEN 35 ELSE 0) + momentum_w
                         + (IF has_atr THEN 15 ELSE 0) + (IF has_vol THEN 15 ELSE 0)
        weighted == IF valid_weights > 10
                    THEN QuoT(trend_val * 35 + momentum_val * 35 + volatility_val * 15 + volume_val * 15,
                              valid_weights)
                    ELSE 0
        clamped == Clamp(weighted, -100000, 100000)
        bb == technicals.bb_position
        confluence_score ==
              (IF technicals.trend_structure \in {"Bullish", "Bearish"} THEN 3 ELSE 0)
            + (IF IsSome(bb)
               THEN IF Val(bb) < 100 \/ Val(bb) > 900 THEN 3
                    ELSE IF Val(bb) < 200 \/ Val(bb) > 800 THEN 2 ELSE 0
               ELSE 0)
            + (IF has_cci /\ Abs(Val(technicals.cci)) > 150000 THEN 2 ELSE 0)
            + (IF has_vol /\ Val(technicals.volume_ratio) > 1200 THEN 2 ELSE 0)
        overall_val == IF confluence_score >= 7 /\ Abs(clamped) < 50000
                       THEN clamped + (IF clamped >= 0 THEN 30000 ELSE -30000)
                       ELSE clamped
        atr_val == IF has_atr THEN Val(technicals.atr_percent) ELSE 0
    IN  [ overall_score    |-> overall_val,
          trend_score      |-> trend_val,
          momentum_score   |-> momentum_val,
          volatility_score |-> volatility_val,
          volume_score     |-> volume_val,
          volatility_risk  |-> IF atr_val < 1500 THEN "Low"
                               ELSE IF atr_val < 3000 THEN "Moderate" ELSE "High",
          confluence_score |-> confluence_score ]

\* The all-zero signal the orchestrator substitutes when the technical
\* response carries no algo_signal.
get_empty_algo_signal ==
    [ overall_score |-> 0, trend_score |-> 0, momentum_score |-> 0,
      volatility_score |-> 0, volume_score |-> 0,
      volatility_risk |-> "Unknown", confluence_score |-> 0 ]

(***************************************************************************)
(* app/settings.py : risk parameters and trading-rule thresholds.          *)
(***************************************************************************)
MAX_POSITION_PCT == 5000
MAX_CAPITAL_RISK_PCT == 500
CONFIDENCE_THRESHOLD == 70000
DEGRADED_POSITION_CAP == 500
ADX_TREND_THRESHOLD == 15000
INSIDER_SELL_THRESHOLD == 3

(***************************************************************************)
(* MarketContext (app/models.py).  A context is a record                   *)
(*   insider_activity : [sells, others]  number of 'Sell' trades dated     *)
(*                      inside the 90-day window / number of other trades  *)
(*   option_sentiment : None or Some([implied_volatility])                 *)
(*   price_target     : None or Some(mean)                                 *)
(*   consensus        : BOOLEAN (present or not)                           *)
(*   analyst_ratings  : number of ratings                                  *)
(*   events           : None or Some(earnings day number)                  *)
(* Dates are day numbers; "today" is the day datetime.now() falls on.      *)
(***************************************************************************)

\* bool(context.insider_activity): a non-empty list.
HasInsiderActivity(context) ==
    context.insider_activity.sells + context.insider_activity.others > 0

(***************************************************************************)
(* app/governor.py : SignalGovernor.  A tracker is the sequence of the     *)
(* rule codes of the violations added so far.                              *)
(***************************************************************************)

assess_data_integrity(technicals, context, is_international) ==
    IF IsNone(technicals.rsi) \/ IsNone(technicals.macd_histogram) THEN "INVALID"
    ELSE LET poisoned_count ==
                 (IF IsNone(technicals.cci) THEN 1 ELSE 0)
               + (IF IsNone(technicals.volume_ratio) THEN 1 ELSE 0)
               + (IF IsSome(context) /\ IsSome(Val(context).option_sentiment)
                     /\ Val(Val(context).option_sentiment).implied_volatility > 200000
                  THEN 1 ELSE 0)
         IN  IF poisoned_count > 0
             THEN IF is_international /\ IsSome(technicals.cci) THEN "VALID" ELSE "DEGRADED"
             ELSE "VALID"

_count_recent_insider_sales(activity) == activity.sells

check_insider_trading(context) ==
    IF IsSome(context) /\ HasInsiderActivity(Val(context))
       /\ _count_recent_insider_sales(Val(context).insider_activity) >= INSIDER_SELL_THRESHOLD
    THEN << "RULE_1_INSIDER_SELLS" >> ELSE << >>

check_earnings_risk(context, today) ==
    IF IsSome(context) /\ IsSome(Val(context).events)
    THEN LET days_to_earnings == Val(Val(context).events) - today
         IN  IF 0 <= days_to_earnings /\ days_to_earnings <= 14
             THEN << "RULE_4_EARNINGS_PROXIMITY" >>
             ELSE IF days_to_earnings = -1 THEN << "RULE_4_EARNINGS_PROXIMITY" >>
             ELSE << >>
    ELSE << >>

\* fundamentals is None on every call the pipeline makes, so Rule 5
\* (check_accrual_quality) adds nothing.
apply_trading_rules(technicals, context, today) ==
    check_insider_trading(context)
    \o (IF IsSome(technicals.adx) /\ Val(technicals.adx) < ADX_TREND_THRESHOLD
        THEN << "RULE_2_ADX_TREND" >> ELSE << >>)
    \o check_earnings_risk(context, today)

(***************************************************************************)
(* app/executor.py : TradeExecutor.calculate_levels                        *)
(***************************************************************************)
calculate_levels(action, technicals, current_price) ==
    LET atr == OrElse(technicals.atr, QuoT(current_price, 100))
    IN  IF action \in {"BUY", "WAIT"}
        THEN [ sl |-> current_price - 2 * atr,
               tp |-> << current_price + 2 * atr, current_price + 4 * atr >>,
               ez |-> << QuoT(current_price * 99, 100), QuoT(current_price * 101, 100) >> ]
        ELSE IF action = "SELL"
        THEN [ sl |-> current_price + 2 * atr,
               tp |-> << current_price - 2 * atr, current_price - 4 * atr >>,
               ez |-> << QuoT(current_price * 99, 100), QuoT(current_price * 101, 100) >> ]
        ELSE [ sl |-> current_price,
               tp |-> << current_price >>,
               ez |-> << current_price, current_price >> ]

(***************************************************************************)
(* app/risk.py : RiskEngine.  Sizes in milli-percent, volumes in shares.   *)
(***************************************************************************)
\* the sizing without its risk-based step: the position cap alone
calculate_position_size_by_cap(setup_state, price, risk_per_share, avg_volume_20d, earnings_date, today) ==
    IF risk_per_share <= 0 THEN 0
    ELSE
    LET size1 == IF setup_state = "DEGRADED"
                 THEN QuoT(MAX_POSITION_PCT * DEGRADED_POSITION_CAP, 1000)
                 ELSE MAX_POSITION_PCT
        size2 == IF Truthy(avg_volume_20d)
                 THEN LET v  == Val(avg_volume_20d)
                          sz == IF v < 500000 THEN QuoT(size1 * v, 500000) ELSE size1
                      IN  IF v < 200000 THEN Min(sz, 1000) ELSE sz
                 ELSE size1
        size3 == IF risk_per_share * 20 > price THEN QuoT(size2, 2) ELSE size2
    IN  IF IsSome(earnings_date) /\ 0 <= Val(earnings_date) - today /\ Val(earnings_date) - today <= 21
        THEN QuoT(size3 * (Val(earnings_date) - today), 21) ELSE size3

calculate_position_size(setup_state, price, risk_per_share, avg_volume_20d, earnings_date, today) ==
    IF risk_per_share <= 0 THEN 0
    ELSE
    LET max_position == IF setup_state = "DEGRADED"
                        THEN QuoT(MAX_POSITION_PCT * DEGRADED_POSITION_CAP, 1000)
                        ELSE MAX_POSITION_PCT
        position_by_risk == QuoT(MAX_CAPITAL_RISK_PCT * price, risk_per_share)
        size1 == Min(max_position, position_by_risk)
        size2 == IF Truthy(avg_volume_20d)
                 THEN LET v  == Val(avg_volume_20d)
                          sz == IF v < 500000 THEN QuoT(size1 * v, 500000) ELSE size1
                      IN  IF v < 200000 THEN Min(sz, 1000) ELSE sz
                 ELSE size1
        size3 == IF risk_per_share * 20 > price THEN QuoT(size2, 2) ELSE size2
        size4 == IF IsSome(earnings_date)
                 THEN LET days_to_e == Val(earnings_date) - today
                      IN  IF 0 <= days_to_e /\ days_to_e <= 21
                          THEN QuoT(size3 * days_to_e, 21) ELSE size3
                 ELSE size3
    IN  size4

\* round(position_size_pct * (risk_per_share / price), 4), in units of 0.0001
calculate_capital_at_risk(position_size_pct, risk_per_share, price) ==
    IF price <= 0 THEN 0
    ELSE RoundDiv(position_size_pct * risk_per_share * 10, price)

(***************************************************************************)
(* app/service.py : QuantitativeTradingSystem.  A TradingDecision is a     *)
(* record; primary_reason keeps the fixed part of the reason text.         *)
(***************************************************************************)
_calculate_base_confidence(technicals, algo_signal, market_context) ==
    LET confluence == algo_signal.confluence_score
        s1 == 80000 + (IF confluence < 4 THEN -30000
                       ELSE IF confluence < 6 THEN -10000
                       ELSE IF confluence >= 8 THEN 10000 ELSE 0)
        s2 == s1 - (IF algo_signal.volatility_risk = "High" THEN 10000 ELSE 0)
        s3 == s2 - (IF IsSome(market_context) /\ Val(market_context).consensus
                       /\ Val(market_context).analyst_ratings = 0
                    THEN 15000 ELSE 0)
    IN  Max(0, Min(100000, s3))

_determine_quality(confidence, algo_signal) ==
    IF confidence > 85000 /\ algo_signal.volatility_risk = "Low" THEN "HIGH"
    ELSE IF confidence > 60000 THEN "MEDIUM" ELSE "LOW"

_create_reject_decision(setup_state, reason, violations) ==
    [ decision_state |-> "REJECT", setup_state |-> setup_state, confidence |-> 0,
      primary_reason |-> reason, violation_rules |-> violations,
      position_size_pct |-> 0, max_capital_at_risk |-> 0, risk_reward_ratio |-> 0,
      stop_loss |-> None, take_profit |-> None, tp_targets |-> None,
      entry_zone |-> None, setup_quality |-> None ]

_create_wait_decision(setup_state, confidence, reason) ==
    [ decision_state |-> "WAIT", setup_state |-> setup_state, confidence |-> confidence,
      primary_reason |-> reason, violation_rules |-> << >>,
      position_size_pct |-> 0, max_capital_at_risk |-> 0, risk_reward_ratio |-> 0,
      stop_loss |-> None, take_profit |-> None, tp_targets |-> None,
      entry_zone |-> None, setup_quality |-> None ]

_create_trade_decision(setup_state, technicals, score, confidence, quality, market_context, today) ==
    LET bias == IF technicals.trend_structure = "Bullish" THEN "BUY" ELSE "SELL"
        current_price == OrElse(technicals.ema_20, 100000)
        lv == calculate_levels(bias, technicals, current_price)
        risk_per_share == Max(Abs(current_price - lv.sl), 10)
        e_date == IF IsSome(market_context) THEN Val(market_context).events ELSE None
        position_size == calculate_position_size(setup_state, current_price, risk_per_share,
                                                 technicals.volume_avg_20d, e_date, today)
        max_risk == calculate_capital_at_risk(position_size, risk_per_share, current_price)
    IN  [ decision_state |-> "ACCEPT", setup_state |-> setup_state, confidence |-> confidence,
          primary_reason |-> "Trade setup approved", violation_rules |-> << >>,
          position_size_pct |-> position_size, max_capital_at_risk |-> max_risk,
          risk_reward_ratio |-> QuoT(Abs(lv.tp[1] - current_price) * 1000, risk_per_share),
          stop_loss |-> Some(lv.sl), take_profit |-> Some(lv.tp[1]), tp_targets |-> Some(lv.tp),
          entry_zone |-> Some(lv.ez), setup_quality |-> Some(quality) ]

pre_screen(market_context, today) ==
    LET tracker == IF IsSome(market_context)
                   THEN check_insider_trading(market_context)
                        \o check_earnings_risk(market_context, today)
                   ELSE << >>
    IN  IF Len(tracker) > 0
        THEN Some(_create_reject_decision("SKIPPED", "Pre-Screen Reject", tracker))
        ELSE None

\* the regime test reading the trading rules' trend threshold (15) in
\* place of its own (20)
capital_shredder_rule_threshold(atr_pct, adx_val) ==
    atr_pct > 3000 /\ adx_val < ADX_TREND_THRESHOLD

\* lines 51-52 of analyze: high volatility with no trend
capital_shredder(atr_pct, adx_val) == atr_pct > 3000 /\ adx_val < 20000

analyze(technicals, algo_signal, market_context, is_international, today) ==
    LET data_integrity == assess_data_integrity(technicals, market_context, is_international)
        atr_pct == OrElse(technicals.atr_percent, 0)
        adx_val == OrElse(technicals.adx, 0)
        tracker == apply_trading_rules(technicals, market_context, today)
        base0   == _calculate_base_confidence(technicals, algo_signal, market_context)
        score0  == algo_signal.overall_score
        ev      == algo_signal.volume_score
        base_confidence == IF ev < 200 THEN Min(base0, 40000) ELSE base0
        score   == IF ev < 200 /\ score0 > 0 THEN QuoT(score0, 2) ELSE score0
    IN  IF data_integrity = "INVALID"
        THEN _create_reject_decision("INVALID", "Critical data missing", << "RULE_0_DATA_INTEGRITY" >>)
        ELSE IF capital_shredder(atr_pct, adx_val)
        THEN _create_reject_decision("INVALID", "Market Regime Invalid", << "REGIME_CAPITAL_SHREDDER" >>)
        ELSE IF Len(tracker) > 0
        THEN _create_reject_decision("INVALID", "Violates framework rules", tracker)
        ELSE IF Abs(score) < 20000 \/ base_confidence < CONFIDENCE_THRESHOLD
        THEN _create_wait_decision("VALID", base_confidence, "Insufficient signals or Low EV")
        ELSE _create_trade_decision("VALID", technicals, score, base_confidence,
                                   _determine_quality(base_confidence, algo_signal),
                                   market_context, today)

(***************************************************************************)
(* app/service.py : _process_horizon.  data_result is the fetched data of  *)
(* one interval: its latest row and current_price (the last close).        *)
(* Result: the TradeSetup, Technicals, AlgoSignal and TradingDecision as   *)
(* they stand when the function returns.                                   *)
(***************************************************************************)
\* lines 113-134: the action, the levels, the R:R downgrade, the WAIT
\* nulling and the TradeSetup, given the three results of lines 110-112
_horizon_setup(current_price, tech, sig, dec0) ==
    LET action0 == IF dec0.decision_state = "REJECT" THEN "REJECT"
                   ELSE IF dec0.decision_state = "WAIT" THEN "WAIT"
                   ELSE IF sig.overall_score > 0 THEN "BUY" ELSE "SELL"
        lv == calculate_levels(action0, tech, current_price)
        \* "if sl and tp": sl is falsy when it is 0.0, tp is a non-empty list
        rr0 == IF lv.sl # 0
               THEN QuoT(Abs(lv.tp[1] - current_price) * 1000, Max(Abs(current_price - lv.sl), 10))
               ELSE 0
        downgrade == dec0.decision_state = "ACCEPT" /\ rr0 < 1000
        dec1 == IF downgrade
                THEN [dec0 EXCEPT !.decision_state = "REJECT",
                                  !.primary_reason = "Mathematically Invalid"]
                ELSE dec0
        action == IF downgrade THEN "REJECT" ELSE action0
        nulled == downgrade \/ action = "WAIT"
        dec == IF action = "WAIT"
               THEN [dec1 EXCEPT !.setup_state = "INVALID",
                                 !.position_size_pct = 0, !.max_capital_at_risk = 0]
               ELSE dec1
        setup == [ action |-> action,
                   confidence |-> dec.confidence,
                   entry_zone |-> IF nulled THEN None ELSE Some(lv.ez),
                   stop_loss |-> IF nulled THEN None ELSE Some(lv.sl),
                   take_profit_targets |-> IF nulled THEN None ELSE Some(lv.tp),
                   risk_reward_ratio |-> Some(IF nulled THEN 0 ELSE rr0),
                   position_size_pct |-> Some(dec.position_size_pct),
                   max_capital_at_risk |-> Some(dec.max_capital_at_risk),
                   setup_state |-> dec.setup_state,
                   setup_quality |-> dec.setup_quality ]
    IN  [ setup |-> setup, tech |-> tech, sig |-> sig, dec |-> dec ]

\* line 112: dec = trading_system.analyze(tech, sig, market_context, None, ticker)
_horizon_decision(current_price, tech, sig, market_context, is_international, today) ==
    _horizon_setup(current_price, tech, sig,
                   analyze(tech, sig, market_context, is_international, today))

\* line 111: sig = calculate_algo_signal(tech)
_horizon_signal(current_price, tech, market_context, is_international, today) ==
    _horizon_decision(current_price, tech, calculate_algo_signal(tech),
                      market_context, is_international, today)

\* lines 109-110: current_price and tech = calculate_advanced_technicals(df)
_process_horizon(data_result, market_context, is_international, today) ==
    _horizon_signal(data_result.Close, calculate_advanced_technicals(data_result),
                    market_context, is_international, today)

(***************************************************************************)
(* app/service.py : get_technical_analysis.                                *)
(* data_results maps each horizon to None (the fetch raised) or to the     *)
(* fetched data.  The shallow price fetch uses the same (ticker, "1d") key *)
(* as the swing horizon and is modelled by the swing entry.                *)
(* The value is None when the function raises, else Some(response).        *)
(* decision_results is the local of that name, kept for observation.       *)
(***************************************************************************)
reject_setup ==
    [ action |-> "REJECT", confidence |-> 0, entry_zone |-> None, stop_loss |-> None,
      take_profit_targets |-> None, risk_reward_ratio |-> None,
      position_size_pct |-> None, max_capital_at_risk |-> None,
      setup_state |-> "SKIPPED", setup_quality |-> None ]

\* the four per-horizon results, each computed once
horizon_results(market_context, data_results, is_international, today) ==
    LET one(k) == IF IsSome(data_results[k])
                  THEN Some(_process_horizon(Val(data_results[k]), market_context, is_international, today))
                  ELSE None
    IN  [ intraday |-> one("intraday"), swing |-> one("swing"),
          positional |-> one("positional"), longterm |-> one("longterm") ]

\* 1 / -1 / 0 as computed for the directional-conflict check
direction(sig) == IF sig.overall_score > 20000 THEN 1
                  ELSE IF sig.overall_score < -20000 THEN -1 ELSE 0

\* lines 150-192, given the pre-screen decision and the per-horizon results
_technical_response(pre_decision, data_results, res) ==
    LET fallback_price == IF IsSome(data_results["swing"]) THEN Val(data_results["swing"]).Close ELSE 0
        swing_bars == IF IsSome(data_results["swing"]) THEN Some(Val(data_results["swing"]).bars) ELSE None
        primary_dec == IF IsSome(res["swing"]) THEN Some(Val(res["swing"]).dec) ELSE None
        conf0 == IF IsSome(primary_dec) THEN Val(primary_dec).confidence ELSE 0
        dirs  == { direction(Val(res[k]).sig) : k \in { h \in {"intraday", "swing", "positional"} : IsSome(res[h]) } }
        global_conf == IF Cardinality(dirs) > 1 /\ 0 \notin dirs THEN QuoT(conf0, 2) ELSE conf0
        strip(s) == [s EXCEPT !.entry_zone = None, !.stop_loss = None, !.take_profit_targets = None,
                              !.position_size_pct = Some(0), !.max_capital_at_risk = Some(0)]
        final(k) == IF IsSome(res[k])
                    THEN Some(IF global_conf < 25000 THEN strip(Val(res[k]).setup)
                              ELSE Val(res[k]).setup)
                    ELSE None
        decision(k) == IF IsSome(res[k]) THEN Some(Val(res[k]).dec) ELSE None
    IN  IF IsSome(pre_decision)
        THEN Some([ current_price |-> fallback_price,
                    technicals |-> None, algo_signal |-> None,
                    trade_setup |-> reject_setup,
                    horizons |-> [ intraday |-> Some(reject_setup), swing |-> Some(reject_setup),
                                   positional |-> Some(reject_setup), longterm |-> Some(reject_setup) ],
                    data_confidence |-> 100000,
                    data_integrity |-> "NOT_EVALUATED",
                    decision_state |-> "REJECT",
                    decision_results |-> [ intraday |-> None, swing |-> None,
                                           positional |-> None, longterm |-> None ],
                    dirs |-> { },
                    swing_bars |-> swing_bars,
                    pre_decision |-> pre_decision ])
        \* without swing data the function reads reject_setup, which is only
        \* bound on the pre-screen path: it raises
        ELSE IF IsNone(res["swing"]) THEN None
        ELSE Some([ current_price |-> Val(data_results["swing"]).Close,
                    technicals |-> Some(Val(res["swing"]).tech),
                    algo_signal |-> Some(Val(res["swing"]).sig),
                    trade_setup |-> Val(final("swing")),
                    horizons |-> [ intraday |-> final("intraday"), swing |-> final("swing"),
                                   positional |-> final("positional"), longterm |-> final("longterm") ],
                    data_confidence |-> global_conf,
                    data_integrity |-> IF global_conf > 25000 THEN "VALID" ELSE "DEGRADED",
                    decision_state |-> Val(primary_dec).decision_state,
                    decision_results |-> [ intraday |-> decision("intraday"), swing |-> decision("swing"),
                                           positional |-> decision("positional"),
                                           longterm |-> decision("longterm") ],
                    dirs |-> dirs,
                    swing_bars |-> swing_bars,
                    pre_decision |-> None ])

get_technical_analysis(market_context, data_results, is_international, today) ==
    _technical_response(pre_screen(market_context, today), data_results,
                        horizon_results(market_context, data_results, is_international, today))

(***************************************************************************)
(* app/ai.py : the narrative engine.  An AIAnalysisResult is the map of    *)
(* its four horizon perspectives (None when the horizon is absent); a      *)
(* perspective is [action, confidence, entry_price, target_price,          *)
(* stop_loss].                                                             *)
(***************************************************************************)
_create_deterministic_analysis(tech_resp) ==
    [ h \in Horizons |->
        Some([ action |-> tech_resp.trade_setup.action, confidence |-> 0,
               entry_price |-> 0, target_price |-> 0, stop_loss |-> 0 ]) ]

\* the bypass without its WAIT clause
deterministic_bypass_reject_only(tech_resp, force_ai) ==
    ~force_ai /\ tech_resp.decision_state = "REJECT"

\* TRUE when interpret_advanced returns the template without an LLM call
deterministic_bypass(tech_resp, force_ai) ==
    ~force_ai /\ ( tech_resp.decision_state = "REJECT"
                   \/ (tech_resp.decision_state = "WAIT" /\ tech_resp.data_confidence < 30000) )

\* llm is what the external call produces: "error" (no client, empty or
\* unparsable text, schema validation failure: the function returns None),
\* "timeout" (the orchestrator's 30 s wait_for raises), or Some(result).
\* Value: [raised, result].
interpret_advanced(tech_resp, force_ai, llm) ==
    IF deterministic_bypass(tech_resp, force_ai)
    THEN [ raised |-> FALSE, result |-> Some(_create_deterministic_analysis(tech_resp)) ]
    ELSE IF llm = << "timeout" >> THEN [ raised |-> TRUE, result |-> None ]
    ELSE IF llm = << "error" >> THEN [ raised |-> FALSE, result |-> None ]
    ELSE [ raised |-> FALSE, result |-> Some(llm[2]) ]

(***************************************************************************)
(* app/service.py : the authority layer                                    *)
(***************************************************************************)
_enforce_confidence_ceiling(ai_res, ceiling, is_authorized) ==
    [ h \in Horizons |->
        IF IsSome(ai_res[h])
        THEN LET p  == Val(ai_res[h])
                 p1 == [p EXCEPT !.confidence = Min(p.confidence, ceiling)]
             IN  Some(IF ~is_authorized
                      THEN [p1 EXCEPT !.entry_price = 0, !.target_price = 0, !.stop_loss = 0]
                      ELSE p1)
        ELSE None ]

(***************************************************************************)
(* Inputs of a request.                                                    *)
(***************************************************************************)

\* Latest rows of a fetched frame, with the number of bars of the frame.
\* RowBull is a clean up-trend; the other rows vary it.
RowBull ==
    [ bars |-> 250, Close |-> 100000, High |-> 101000, Low |-> 99000,
      RSI |-> Some(40000), MACD_Histogram |-> Some(1000), ADX |-> Some(30000),
      ATR |-> Some(1000), CCI |-> Some(160000), BB_Position |-> Some(950),
      Volume_Ratio |-> Some(1500), Volume_MA_20 |-> Some(1000000),
      EMA_20 |-> Some(98000), EMA_50 |-> Some(95000), EMA_200 |-> Some(90000) ]

\* up-trend with one confirmation less (confluence 7)
RowBull7 == [RowBull EXCEPT !.CCI = Some(100000), !.BB_Position = Some(850)]

\* clean down-trend
RowBear ==
    [RowBull EXCEPT !.Close = 80000, !.High = 81000, !.Low = 79000,
                    !.RSI = Some(60000), !.MACD_Histogram = Some(-1000),
                    !.ATR = Some(800), !.CCI = Some(-160000), !.BB_Position = Some(50),
                    !.EMA_20 = Some(82000), !.EMA_50 = Some(85000), !.EMA_200 = Some(90000)]

\* trending market, price between its averages, indicators cancelling out
RowFlat ==
    [RowBull EXCEPT !.RSI = Some(50000), !.MACD_Histogram = Some(0), !.ATR = Some(2000),
                    !.CCI = Some(-160000), !.Volume_Ratio = Some(1100),
                    !.EMA_20 = Some(99000), !.EMA_50 = Some(102000), !.EMA_200 = Some(101000)]

\* as RowFlat with nothing confirming (confluence 0)
RowQuiet == [RowFlat EXCEPT !.CCI = Some(-100000), !.BB_Position = Some(500)]

\* RSI not computable (NaN)
RowNoRsi == [RowBull EXCEPT !.RSI = None]

\* CCI not computable
RowNoCci == [RowBull EXCEPT !.CCI = None]

\* high volatility without trend
RowShredder == [RowBull EXCEPT !.ATR = Some(3800), !.ADX = Some(17000)]

\* a clean up-trend in a stock quoted at 0.30 with an ATR of 0.002
RowPenny ==
    [RowBull EXCEPT !.Close = 300, !.High = 301, !.Low = 299, !.ATR = Some(2),
                    !.EMA_20 = Some(290), !.EMA_50 = Some(280), !.EMA_200 = Some(270)]

\* the function the spec gates at 50 bars (technicals_indicators.py)
INDICATOR_BARS == 50

\* a frame of 40 bars: fetch_stock_data lets it through (at least 20 bars),
\* the 14-, 20- and 26-bar indicators are there, the 50- and 200-bar
\* averages are not
RowShort == [RowBull EXCEPT !.bars = 40, !.EMA_50 = None, !.EMA_200 = None]

\* the clean up-trend on average volume (volume_ratio 1.0)
RowBullAvgVolume == [RowBull EXCEPT !.Volume_Ratio = Some(1000)]

SwingRows == { RowBull, RowBull7, RowBear, RowFlat, RowQuiet, RowNoRsi, RowNoCci,
               RowShredder, RowPenny, RowShort, RowBullAvgVolume }
IntradayRows   == { RowBull, RowBear, RowNoRsi }
PositionalRows == { RowBear }
LongtermRows   == { RowShredder }

OptionOf(S) == { None } \cup { Some(x) : x \in S }

DataResults ==
    { [ k \in Horizons |-> IF k = "intraday" THEN i ELSE IF k = "swing" THEN sw
                           ELSE IF k = "positional" THEN po ELSE lt ] :
        i \in OptionOf(IntradayRows), sw \in OptionOf(SwingRows),
        po \in OptionOf(PositionalRows), lt \in OptionOf(LongtermRows) }

\* A request runs on one of the days 0 .. MaxDay; the next earnings date,
\* when the context has one, is day EarningsDay.
MaxDay == 1
EarningsDay == 15

Contexts ==
    [ insider_activity : { [sells |-> 0, others |-> 0], [sells |-> 1, others |-> 1],
                           [sells |-> INSIDER_SELL_THRESHOLD, others |-> 0] },
      option_sentiment : OptionOf({ [implied_volatility |-> 30000] }),
      price_target     : OptionOf({ 50000 }),
      consensus        : BOOLEAN,
      analyst_ratings  : { 0 },
      events           : OptionOf({ EarningsDay }) ]

\* What the narrative LLM may answer: any action, any confidence, any levels.
Perspectives ==
    [ action : { "BUY", "REJECT" }, confidence : { 30000, 100000 },
      entry_price : { 100000 }, target_price : { 110000 }, stop_loss : { 95000 } ]

LLMResults ==
    { [ h \in Horizons |-> IF h \in present THEN Some(p) ELSE None ] :
        p \in Perspectives, present \in { Horizons, { "swing" } } }

LLMOutputs == { << "timeout" >>, << "error" >> } \cup { << "ok", r >> : r \in LLMResults }

\* The request's mode and whether the sensor stage took more than 6 s.
Runs == { [mode |-> "all", slow |-> FALSE], [mode |-> "all", slow |-> TRUE],
          [mode |-> "execution", slow |-> FALSE] }

(***************************************************************************)
(* app/service.py : the levels block of the response                       *)
(***************************************************************************)
_calculate_support_levels(tech) ==
    ( IF IsSome(tech.technicals) /\ Truthy(Val(tech.technicals).support_s1)
      THEN << [ price |-> Val(Val(tech.technicals).support_s1), type |-> "PIVOT_S1" ] >>
      ELSE << >> )
    \o ( IF Truthy(tech.trade_setup.stop_loss)
         THEN << [ price |-> Val(tech.trade_setup.stop_loss), type |-> "ATR_STOP" ] >>
         ELSE << >> )

_calculate_resistance_levels(tech) ==
    IF IsSome(tech.technicals) /\ Truthy(Val(tech.technicals).resistance_r1)
    THEN << [ price |-> Val(Val(tech.technicals).resistance_r1), type |-> "PIVOT_R1" ] >>
    ELSE << >>

(***************************************************************************)
(* app/service.py : analyze_stock, from the veto and taxonomy block to the *)
(* assembled AdvancedStockResponse.  mode is the request's mode, slow is   *)
(* TRUE when more than 6 s have elapsed before the narrative stage.        *)
(* llm_called is not a field of the response: it records whether the       *)
(* external LLM call was made.                                             *)
(***************************************************************************)
data_state_taxonomy_of(market_context, tech_resp, is_international) ==
    LET absent == IF is_international THEN "NOT_SUPPORTED_IN_REGION" ELSE "DATA_ABSENT"
    IN    (IF ~(IsSome(market_context) /\ IsSome(Val(market_context).option_sentiment))
           THEN { << "OPTIONS", absent >> } ELSE {})
     \cup (IF ~(IsSome(market_context) /\ HasInsiderActivity(Val(market_context)))
           THEN { << "INSIDER", absent >> } ELSE {})
     \cup (IF IsNone(tech_resp.technicals) THEN { << "TECHNICALS", "MISSING" >> }
           ELSE IF IsNone(Val(tech_resp.technicals).cci) THEN { << "CCI", "MISSING" >> }
           ELSE {})

\* the authorization with the data-integrity condition left out
is_authorized_without_integrity(global_conf, data_integrity, vetoes, technicals) ==
    global_conf >= 40000 /\ vetoes = << >> /\ IsSome(technicals)

\* analyze_stock's is_authorized
is_authorized(global_conf, data_integrity, vetoes, technicals) ==
    global_conf >= 40000 /\ data_integrity = "VALID" /\ vetoes = << >> /\ IsSome(technicals)

assemble_response(market_context, tech_resp, is_international, mode, force_ai, slow, llm) ==
    LET adx_val == IF IsSome(tech_resp.technicals) /\ IsSome(Val(tech_resp.technicals).adx)
                   THEN Val(Val(tech_resp.technicals).adx) ELSE 0
        price   == tech_resp.current_price
        target  == IF IsSome(market_context) THEN Val(market_context).price_target ELSE None
        is_overvalued == Truthy(target) /\ price * 100 > Val(target) * 104
        vetoes  == IF adx_val < 20000 /\ is_overvalued
                   THEN << [type |-> "REGIME_VALUATION_CONFLICT", severity |-> "HARD"] >>
                   ELSE << >>
        data_state_taxonomy == data_state_taxonomy_of(market_context, tech_resp, is_international)
        conf1 == IF tech_resp.data_integrity = "DEGRADED"
                 THEN Min(tech_resp.data_confidence, 40000) ELSE tech_resp.data_confidence
        missing_critical == Cardinality(data_state_taxonomy)
        global_conf == IF missing_critical > 0
                       THEN QuoT(conf1 * (100 - 15 * missing_critical), 100) ELSE conf1
        data_integrity == IF missing_critical > 0 THEN "DEGRADED" ELSE tech_resp.data_integrity
        authorized == is_authorized(global_conf, data_integrity, vetoes, tech_resp.technicals)
        sig == IF IsSome(tech_resp.algo_signal) THEN Val(tech_resp.algo_signal) ELSE get_empty_algo_signal
        expectancy_val == IF sig.confluence_score > 5 THEN QuoT(sig.volume_score - 50000, 50) ELSE 0
        t_comp == IF sig.trend_score > 0 THEN RoundDiv(sig.trend_score, 100) ELSE 0
        m_comp == RoundDiv(sig.momentum_score, 100)
        v_comp == IF is_overvalued THEN -1000 ELSE 1000
        primary_signal == RoundDiv(t_comp * 300 + m_comp * 200 + expectancy_val * 250 + v_comp * 250, 1000)
        has_conflicts == vetoes # << >> \/ global_conf < 40000
        should_skip_ai == ((primary_signal < 150 /\ ~has_conflicts) \/ slow \/ mode = "execution")
                          /\ ~force_ai
        call == interpret_advanced(tech_resp, force_ai, llm)
        ai0  == IF should_skip_ai THEN None ELSE call.result
        fallback_used == should_skip_ai \/ (~should_skip_ai /\ call.raised)
                         \/ (force_ai /\ IsNone(ai0))
        ai_analysis == IF IsSome(ai0)
                       THEN Some(_enforce_confidence_ceiling(Val(ai0), global_conf, authorized))
                       ELSE None
    IN  [ execution |-> [ action |-> tech_resp.trade_setup.action,
                          authorized |-> authorized,
                          vetoes |-> vetoes ],
          signals |-> [ actionable |-> authorized,
                        primary_signal_strength |-> primary_signal,
                        components |->
                          [ trend      |-> [ score |-> RoundDiv(sig.trend_score, 1000) * 10, weight |-> 300 ],
                            momentum   |-> [ score |-> RoundDiv(sig.momentum_score, 1000) * 10, weight |-> 200 ],
                            expectancy |-> [ score |-> Round2(expectancy_val), weight |-> 250 ],
                            valuation  |-> [ score |-> v_comp, weight |-> 250 ] ] ],
          levels |-> [ current |-> price,
                       support |-> _calculate_support_levels(tech_resp),
                       resistance |-> _calculate_resistance_levels(tech_resp) ],
          system |-> [ confidence |-> Round1(global_conf),
                       data_quality |-> data_integrity,
                       blocking_issues |-> << >>,
                       data_state_taxonomy |-> data_state_taxonomy,
                       fallback_used |-> fallback_used,
                       engine_logic |-> IF IsSome(ai_analysis) THEN "HYBRID" ELSE "DETERMINISTIC" ],
          ai_analysis |-> ai_analysis,
          llm_called |-> ~should_skip_ai /\ ~deterministic_bypass(tech_resp, force_ai),
          \* the call of the narrative engine: whether it was made, with
          \* which force_ai, and what it returned
          narrative |-> [ invoked |-> ~should_skip_ai, force_ai |-> force_ai, returned |-> ai0 ] ]

(***************************************************************************)
(* The service as a state machine: one request at a time goes through the *)
(* sensor stage and the synthesis stage of analyze_stock.                  *)
(*   pc             "idle" | "sensed" | "done" | "failed"                  *)
(*   market_context the context sensor's result held by analyze_stock      *)
(*   tech_resp      the technical pipeline's result                        *)
(*   is_intl        the ticker contains '.'                                *)
(*   response       the AdvancedStockResponse returned                     *)
(*   failure        why the request ended in the terminal failure          *)
(***************************************************************************)
VARIABLES pc, market_context, tech_resp, is_intl, response, failure

service_vars == << pc, market_context, tech_resp, is_intl, response, failure >>

(***************************************************************************)
(* The module-level trading_system (service.py line 104) is one object     *)
(* that every request and every horizon calls.  To compare two of its      *)
(* calls:                                                                  *)
(*   gov_clock    the day datetime.now() reports                           *)
(*   gov_first    the first call watched: its inputs, the data integrity   *)
(*                it assessed and its decision                             *)
(*   gov_between  how many other calls have run since                      *)
(*   gov_second   the decision of the repeated call                        *)
(***************************************************************************)
VARIABLES gov_clock, gov_first, gov_between, gov_second

governor_vars == << gov_clock, gov_first, gov_between, gov_second >>

(***************************************************************************)
(* app/cache.py : the CacheManager singleton and its Redis backend.        *)
(*   cache_mgr      None before construction, then [use_redis, client]     *)
(*   cache_store    the backend's content: versioned key -> JSON text      *)
(*   cache_written  every (key, text) the backend ever accepted            *)
(*   cache_last     the last operation: what was called and how it ended   *)
(***************************************************************************)
VARIABLES cache_mgr, cache_store, cache_written, cache_last

cache_vars == << cache_mgr, cache_store, cache_written, cache_last >>

(***************************************************************************)
(* app/market_data.py : concurrent runs of fetch_stock_data for one        *)
(* (ticker, interval) key.                                                 *)
(*   fetch_req    per request: the await it is suspended at (pc), its      *)
(*                locals, how it ended, whether it wrote the cache         *)
(*   fetch_cache  the cache entry under the key, None when absent          *)
(***************************************************************************)
VARIABLES fetch_req, fetch_cache

fetch_vars == << fetch_req, fetch_cache >>

(***************************************************************************)
(* app/providers/factory.py : one run of ProviderFactory.fetch_with_       *)
(* failover.                                                               *)
(*   fo_run         None when idle, else the method, its argument and the  *)
(*                  provider list of this run                              *)
(*   fo_calls       the provider calls made so far, with their outcomes    *)
(*   fo_last_error  the local last_error                                   *)
(*   fo_result      how the run ended, None while it is running            *)
(***************************************************************************)
VARIABLES fo_run, fo_calls, fo_last_error, fo_result

failover_vars == << fo_run, fo_calls, fo_last_error, fo_result >>

(***************************************************************************)
(* app/middleware.py : RateLimiterMiddleware, seen from one client IP.     *)
(*   rl_mode      None before construction, else use_redis                 *)
(*   rl_now       time.time(), in ticks of a third of the period           *)
(*   rl_redis     the Redis counter under each rate_limit:ip:window key    *)
(*   rl_requests  self.requests[client_ip], the in-memory timestamps       *)
(*   rl_passed    the times at which call_next was reached                 *)
(*   rl_rejected  the number of 429 answers                                *)
(***************************************************************************)
VARIABLES rl_mode, rl_now, rl_redis, rl_requests, rl_passed, rl_rejected

rate_vars == << rl_mode, rl_now, rl_redis, rl_requests, rl_passed, rl_rejected >>

(***************************************************************************)
(* app/fundamentals_analytics.py : one call of                             *)
(* IntrinsicValuationEngine.calculate_dcf.                                 *)
(*   dcf_args    the arguments of the last call, None before the first     *)
(*   dcf_result  the dict it returned                                      *)
(***************************************************************************)
VARIABLES dcf_args, dcf_result

valuation_vars == << dcf_args, dcf_result >>

vars == << service_vars, governor_vars, cache_vars, fetch_vars, failover_vars, rate_vars, valuation_vars >>

FailoverInit ==
    /\ fo_run = None
    /\ fo_calls = << >>
    /\ fo_last_error = None
    /\ fo_result = None

\* requests_per_minute and the period, scaled down: 2 requests per 3 ticks
RATE_LIMIT_REQUESTS == 2

RATE_LIMIT_PERIOD == 3

MaxNow == 5

MaxPassed == 5

RateWindows == 0 .. (MaxNow \div RATE_LIMIT_PERIOD)

RateInit ==
    /\ rl_mode = None
    /\ rl_now = 0
    /\ rl_redis = [ w \in RateWindows |-> 0 ]
    /\ rl_requests = << >>
    /\ rl_passed = << >>
    /\ rl_rejected = 0

FetchRequests == { "r1", "r2" }

IdleRequest ==
    [ pc |-> "idle", df |-> None, info |-> None, provider |-> None,
      ended |-> None, wrote |-> FALSE, cancelled_at |-> None ]

FetchInit ==
    /\ fetch_req = [ r \in FetchRequests |-> IdleRequest ]
    /\ fetch_cache = None

CacheKeys == { "market_v3.2:AAPL:1d", "market_v3.2:AAPL:60m" }

\* _get_key: the global version is part of the backend key
_get_key(key) == << "qs", "v2.1", key >>

\* values handed to set: a list, a tuple, a number, and an object that
\* refers to itself
CacheValues == { << "list", 1 >>, << "tuple", 1 >>, << "number", 7 >>, << "cyclic" >> }

\* robust_coerce followed by json.dumps: None when it raises
serialized(value) ==
    IF value = << "cyclic" >> THEN None
    ELSE IF value[1] = "tuple" THEN Some(<< "json", << "list", value[2] >> >>)
    ELSE Some(<< "json", value >>)

json_loads(data) == data[2]

CacheInit ==
    /\ cache_mgr = None
    /\ cache_store = [ k \in { _get_key(key) : key \in CacheKeys } |-> None ]
    /\ cache_written = { }
    /\ cache_last = None

GovernorInit ==
    /\ gov_clock = 0
    /\ gov_first = None
    /\ gov_between = 0
    /\ gov_second = None

ServiceInit ==
    /\ pc = "idle"
    /\ market_context = None
    /\ tech_resp = None
    /\ is_intl = FALSE
    /\ response = None
    /\ failure = None

DcfInit ==
    /\ dcf_args = None
    /\ dcf_result = None

Init == ServiceInit /\ GovernorInit /\ CacheInit /\ FetchInit /\ FailoverInit /\ RateInit /\ DcfInit

\* the horizons whose price fetch delivers data
priced(data) == { h \in Horizons : IsSome(data[h]) }

\* technicals.py has no length gate and dereferences what the indicator
\* library returns (macd.columns, line 16; price > ema50, line 74).  For a
\* frame shorter than an indicator's length the library either fills the
\* column with NaN or returns nothing, and then _process_horizon raises:
\* both outcomes are possible once the horizons are processed.
technical_outcomes(data, result) ==
    IF /\ IsSome(result) /\ IsNone(Val(result).pre_decision)
       /\ \E h \in priced(data) : Val(data[h]).bars < INDICATOR_BARS
    THEN { result, None }
    ELSE { result }

\* the bars of the swing frame, None when it was not fetched
swing_bars_of(data) == IF IsSome(data["swing"]) THEN Some(Val(data["swing"]).bars) ELSE None

\* Stage 1: analyze_stock and get_technical_analysis each fetch the market
\* context c; main_ok is FALSE when analyze_stock's own fetch raised and it
\* carries on without a context.  When get_technical_analysis raises there
\* is no technical response and analyze_stock raises ValueError; failure
\* then records why, and which horizons had price data to offer.
Sensors ==
    /\ pc = "idle"
    /\ \E c \in Contexts, data \in DataResults, intl \in BOOLEAN, today \in 0 .. MaxDay :
          \E tech \in technical_outcomes(data, get_technical_analysis(Some(c), data, intl, today)) :
              IF IsSome(tech)
              THEN /\ \E main_ok \in BOOLEAN :
                         market_context' = (IF main_ok THEN Some(c) ELSE None)
                   /\ tech_resp' = tech
                   /\ is_intl' = intl
                   /\ pc' = "sensed"
                   /\ UNCHANGED failure
              ELSE /\ pc' = "failed"
                   /\ failure' = Some([ cause |-> "technical_raised", prices |-> priced(data),
                                        swing_bars |-> swing_bars_of(data) ])
                   /\ UNCHANGED << market_context, tech_resp, is_intl >>
    /\ UNCHANGED response
    /\ UNCHANGED << governor_vars, cache_vars, fetch_vars, failover_vars, rate_vars, valuation_vars >>

\* Stage 1 without a technical response for a reason outside the price
\* data: get_market_context raises inside get_technical_analysis (line 139,
\* not guarded), or the 30 s deadline of the gather fires because some
\* sensor is still running.  data is what the price providers deliver.
SensorsAbort ==
    /\ pc = "idle"
    /\ \E data \in DataResults, cause \in { "context_raised", "timeout" } :
          failure' = Some([ cause |-> cause, prices |-> priced(data),
                             swing_bars |-> swing_bars_of(data) ])
    /\ pc' = "failed"
    /\ UNCHANGED << market_context, tech_resp, is_intl, response >>
    /\ UNCHANGED << governor_vars, cache_vars, fetch_vars, failover_vars, rate_vars, valuation_vars >>

\* Stage 2: vetoes, taxonomy, authorization, narrative, authority layer,
\* response.
Synthesis ==
    /\ pc = "sensed"
    /\ \E run \in Runs, force_ai \in BOOLEAN, llm \in LLMOutputs :
          response' = Some(assemble_response(market_context, Val(tech_resp), is_intl,
                                             run.mode, force_ai, run.slow, llm))
    /\ pc' = "done"
    /\ UNCHANGED << market_context, tech_resp, is_intl, failure >>
    /\ UNCHANGED << governor_vars, cache_vars, fetch_vars, failover_vars, rate_vars, valuation_vars >>

\* The request is over; the next one starts from a clean slate.
Finish ==
    /\ pc \in { "done", "failed" }
    /\ pc' = "idle"
    /\ market_context' = None
    /\ tech_resp' = None
    /\ is_intl' = FALSE
    /\ response' = None
    /\ failure' = None
    /\ UNCHANGED << governor_vars, cache_vars, fetch_vars, failover_vars, rate_vars, valuation_vars >>

Next == Sensors \/ SensorsAbort \/ Synthesis \/ Finish

Spec == Init /\ [][Next]_vars

(***************************************************************************)
(* Two calls of trading_system.analyze on the same inputs, with the clock  *)
(* and other calls running in between.  analyze builds its rejection       *)
(* tracker afresh on each call and keeps nothing on the object; the one    *)
(* thing it reads besides its arguments is datetime.now() in the           *)
(* governor's earnings rule.                                               *)
(***************************************************************************)
MaxBetween == 2


\* the clean up-trend with no usable volume ratio
RowNoVolume == [RowBull EXCEPT !.Volume_Ratio = None]

\* a context whose only content is an earnings date on the day before day 0
ContextReported ==
    [ insider_activity |-> [sells |-> 0, others |-> 0], option_sentiment |-> None,
      price_target |-> None, consensus |-> FALSE, analyst_ratings |-> 0, events |-> Some(-1) ]

\* the clean up-trend with an ATR of 11% of the price
RowWild == [RowBull EXCEPT !.ATR = Some(11000)]

\* the clean up-trend in a stock trading 100,000 shares a day
RowThinVolume == [RowBull EXCEPT !.Volume_MA_20 = Some(100000)]

GovInputs == [ row : SwingRows \cup { RowNoVolume, RowWild, RowThinVolume },
               context : OptionOf(Contexts \cup { ContextReported }),
               is_international : BOOLEAN ]

governor_decision(input, today) ==
    analyze(calculate_advanced_technicals(input.row),
            calculate_algo_signal(calculate_advanced_technicals(input.row)),
            input.context, input.is_international, today)

GovFirstCall ==
    /\ gov_first = None
    /\ \E input \in GovInputs :
          gov_first' = Some([ input |-> input, day |-> gov_clock,
                              integrity |-> assess_data_integrity(
                                                calculate_advanced_technicals(input.row),
                                                input.context, input.is_international),
                              decision |-> governor_decision(input, gov_clock) ])
    /\ UNCHANGED << gov_clock, gov_between, gov_second >>
    /\ UNCHANGED << service_vars, cache_vars, fetch_vars, failover_vars, rate_vars, valuation_vars >>

\* some other call of analyze: its tracker and its decision are its own,
\* so it leaves nothing behind but the count
GovOtherCall ==
    /\ IsSome(gov_first)
    /\ gov_second = None
    /\ gov_between < MaxBetween
    /\ gov_between' = gov_between + 1
    /\ UNCHANGED << gov_clock, gov_first, gov_second >>
    /\ UNCHANGED << service_vars, cache_vars, fetch_vars, failover_vars, rate_vars, valuation_vars >>

\* midnight passes
GovTick ==
    /\ gov_clock < MaxDay
    /\ gov_clock' = gov_clock + 1
    /\ UNCHANGED << gov_first, gov_between, gov_second >>
    /\ UNCHANGED << service_vars, cache_vars, fetch_vars, failover_vars, rate_vars, valuation_vars >>

GovSecondCall ==
    /\ IsSome(gov_first)
    /\ gov_second = None
    /\ gov_second' = Some(governor_decision(Val(gov_first).input, gov_clock))
    /\ UNCHANGED << gov_clock, gov_first, gov_between >>
    /\ UNCHANGED << service_vars, cache_vars, fetch_vars, failover_vars, rate_vars, valuation_vars >>

GovForget ==
    /\ IsSome(gov_second)
    /\ gov_first' = None
    /\ gov_between' = 0
    /\ gov_second' = None
    /\ UNCHANGED gov_clock
    /\ UNCHANGED << service_vars, cache_vars, fetch_vars, failover_vars, rate_vars, valuation_vars >>

GovernorNext == GovFirstCall \/ GovOtherCall \/ GovTick \/ GovSecondCall \/ GovForget

GovernorSpec == Init /\ [][GovernorNext]_vars

(***************************************************************************)
(* app/cache.py : CacheManager.  Every call into the Redis client may      *)
(* fail (backend unreachable, timing out or erroring): backend_ok is       *)
(* FALSE then.                                                             *)
(***************************************************************************)
\* __init__ and _init_redis: from_url either yields a client or raises
CacheConstruct ==
    /\ cache_mgr = None
    /\ \E ok \in BOOLEAN : cache_mgr' = Some([ use_redis |-> ok, client |-> ok ])
    /\ UNCHANGED << cache_store, cache_written, cache_last >>
    /\ UNCHANGED << service_vars, governor_vars, fetch_vars, failover_vars, rate_vars, valuation_vars >>

cache_enabled == Val(cache_mgr).use_redis /\ Val(cache_mgr).client

\* what get returns when the backend answers with data
get_result(data) == IF IsSome(data) THEN Some(json_loads(Val(data))) ELSE None

CacheGet ==
    /\ IsSome(cache_mgr)
    /\ \E key \in CacheKeys, backend_ok \in BOOLEAN :
          cache_last' = Some([ op |-> "get", key |-> key, outcome |-> "returned",
                               value |-> IF cache_enabled /\ backend_ok
                                         THEN get_result(cache_store[_get_key(key)])
                                         ELSE None ])
    /\ UNCHANGED << cache_mgr, cache_store, cache_written >>
    /\ UNCHANGED << service_vars, governor_vars, fetch_vars, failover_vars, rate_vars, valuation_vars >>

CacheSet ==
    /\ IsSome(cache_mgr)
    /\ \E key \in CacheKeys, value \in CacheValues, backend_ok \in BOOLEAN :
          /\ IF cache_enabled /\ IsSome(serialized(value)) /\ backend_ok
             THEN /\ cache_store' = [cache_store EXCEPT ![_get_key(key)] = serialized(value)]
                  /\ cache_written' = cache_written \cup { << key, Val(serialized(value)) >> }
             ELSE UNCHANGED << cache_store, cache_written >>
          /\ cache_last' = Some([ op |-> "set", key |-> key, outcome |-> "returned",
                                  value |-> None ])
    /\ UNCHANGED cache_mgr
    /\ UNCHANGED << service_vars, governor_vars, fetch_vars, failover_vars, rate_vars, valuation_vars >>

\* the backend drops an entry whose ttl has run out
CacheExpire ==
    /\ \E k \in DOMAIN cache_store :
          /\ IsSome(cache_store[k])
          /\ cache_store' = [cache_store EXCEPT ![k] = None]
    /\ UNCHANGED << cache_mgr, cache_written, cache_last >>
    /\ UNCHANGED << service_vars, governor_vars, fetch_vars, failover_vars, rate_vars, valuation_vars >>

\* close: aclose is awaited outside any try block; use_redis is cleared
\* only when it returns
CacheClose ==
    /\ IsSome(cache_mgr)
    /\ \E backend_ok \in BOOLEAN :
          IF ~Val(cache_mgr).client
          THEN /\ cache_last' = Some([ op |-> "close", key |-> "", outcome |-> "returned",
                                       value |-> None ])
               /\ UNCHANGED cache_mgr
          ELSE IF backend_ok
          THEN /\ cache_last' = Some([ op |-> "close", key |-> "", outcome |-> "returned",
                                       value |-> None ])
               /\ cache_mgr' = Some([ Val(cache_mgr) EXCEPT !.use_redis = FALSE ])
          ELSE /\ cache_last' = Some([ op |-> "close", key |-> "", outcome |-> "raised",
                                       value |-> None ])
               /\ UNCHANGED cache_mgr
    /\ UNCHANGED << cache_store, cache_written >>
    /\ UNCHANGED << service_vars, governor_vars, fetch_vars, failover_vars, rate_vars, valuation_vars >>

CacheNext == CacheConstruct \/ CacheGet \/ CacheSet \/ CacheExpire \/ CacheClose

CacheSpec == Init /\ [][CacheNext]_vars

(***************************************************************************)
(* app/market_data.py : fetch_stock_data, one action per await.  Between   *)
(* two awaits the coroutine runs without interruption; a cancellation is   *)
(* delivered at the await it is suspended at.                              *)
(***************************************************************************)
MIN_BARS == 20

\* a price frame: its number of bars and its last close
Frames == [ bars : { 0, 19, 20, 21 }, last_close : { 100000 } ]

ProviderNames == { "Polygon.io", "YahooFinance" }

ProviderErrors == { "TickerNotFoundError", "ProviderThrottledError", "SensorError" }

\* lines 39-43 with the bar-count test left out
validation_error_empty_only(df) ==
    IF df.bars = 0 THEN Some("TickerNotFoundError") ELSE None

\* lines 39-43: the error the fetched frame is refused with, None when it
\* is accepted
validation_error(df) ==
    IF df.bars = 0 THEN Some("TickerNotFoundError")
    ELSE IF df.bars < MIN_BARS THEN Some("LiquidityHaltError")
    ELSE None

\* lines 63-66: what the caller sees for an error raised inside the try
raised_as(error) ==
    IF error \in { "TickerNotFoundError", "LiquidityHaltError" } THEN error ELSE "SensorError"

\* lines 46-59: the serializable result
serializable_result(req) ==
    [ info |-> Val(req.info),
      dataframe |-> Val(req.df),
      returns |-> Val(req.df).bars - 1,
      current_price |-> Val(req.df).last_close,
      provider |-> Val(req.provider) ]

\* line 17: the call; the coroutine suspends in cache_manager.get
FetchBegin(r) ==
    /\ fetch_req[r].pc = "idle"
    /\ fetch_req' = [fetch_req EXCEPT ![r] = [IdleRequest EXCEPT !.pc = "cache_get"]]
    /\ UNCHANGED fetch_cache
    /\ UNCHANGED << service_vars, governor_vars, cache_vars, failover_vars, rate_vars, valuation_vars >>

\* lines 17-28: get answers (None when the backend fails); a hit returns
\* the cached record, a miss goes on to the providers
FetchCacheGet(r) ==
    /\ fetch_req[r].pc = "cache_get"
    /\ \E backend_ok \in BOOLEAN :
          IF backend_ok /\ IsSome(fetch_cache)
          THEN fetch_req' = [fetch_req EXCEPT ![r].pc = "returned", ![r].ended = Some("cached")]
          ELSE fetch_req' = [fetch_req EXCEPT ![r].pc = "history"]
    /\ UNCHANGED fetch_cache
    /\ UNCHANGED << service_vars, governor_vars, cache_vars, failover_vars, rate_vars, valuation_vars >>

\* lines 32-34: the price history through the failover chain
FetchHistory(r) ==
    /\ fetch_req[r].pc = "history"
    /\ \/ \E df \in Frames, name \in ProviderNames :
             fetch_req' = [fetch_req EXCEPT ![r].pc = "info", ![r].df = Some(df),
                                            ![r].provider = Some(name)]
       \/ \E error \in ProviderErrors :
             fetch_req' = [fetch_req EXCEPT ![r].pc = "raised", ![r].ended = Some(raised_as(error))]
    /\ UNCHANGED fetch_cache
    /\ UNCHANGED << service_vars, governor_vars, cache_vars, failover_vars, rate_vars, valuation_vars >>

\* lines 37-60: the ticker info through the failover chain, then the
\* validation and the result, up to the await of cache_manager.set
FetchInfo(r) ==
    /\ fetch_req[r].pc = "info"
    /\ \/ \E info \in { "info", "empty" } :
             IF IsSome(validation_error(Val(fetch_req[r].df)))
             THEN fetch_req' = [fetch_req EXCEPT ![r].pc = "raised",
                      ![r].ended = Some(raised_as(Val(validation_error(Val(fetch_req[r].df)))))]
             ELSE fetch_req' = [fetch_req EXCEPT ![r].pc = "cache_set", ![r].info = Some(info)]
       \/ \E error \in ProviderErrors :
             fetch_req' = [fetch_req EXCEPT ![r].pc = "raised", ![r].ended = Some(raised_as(error))]
    /\ UNCHANGED fetch_cache
    /\ UNCHANGED << service_vars, governor_vars, cache_vars, failover_vars, rate_vars, valuation_vars >>

\* lines 60-62: set completes (a no-op when the backend fails) and the
\* result is returned
FetchCacheSet(r) ==
    /\ fetch_req[r].pc = "cache_set"
    /\ \E backend_ok \in BOOLEAN :
          IF backend_ok
          THEN /\ fetch_cache' = Some(serializable_result(fetch_req[r]))
               /\ fetch_req' = [fetch_req EXCEPT ![r].pc = "returned", ![r].ended = Some("fetched"),
                                                 ![r].wrote = TRUE]
          ELSE /\ fetch_req' = [fetch_req EXCEPT ![r].pc = "returned", ![r].ended = Some("fetched")]
               /\ UNCHANGED fetch_cache
    /\ UNCHANGED << service_vars, governor_vars, cache_vars, failover_vars, rate_vars, valuation_vars >>

\* the awaiting task is cancelled (the orchestrator's 30 s deadline).
\* CancelledError is not an Exception: neither set's handler nor line 65
\* catches it.  A request suspended in set may already have sent its SET
\* to the backend: landed.
FetchCancel(r) ==
    /\ fetch_req[r].pc \in { "cache_get", "history", "info", "cache_set" }
    /\ \E landed \in BOOLEAN :
          IF fetch_req[r].pc = "cache_set" /\ landed
          THEN /\ fetch_cache' = Some(serializable_result(fetch_req[r]))
               /\ fetch_req' = [fetch_req EXCEPT ![r].pc = "cancelled", ![r].wrote = TRUE,
                                                 ![r].cancelled_at = Some(fetch_req[r].pc)]
          ELSE /\ fetch_req' = [fetch_req EXCEPT ![r].pc = "cancelled",
                                                 ![r].cancelled_at = Some(fetch_req[r].pc)]
               /\ UNCHANGED fetch_cache
    /\ UNCHANGED << service_vars, governor_vars, cache_vars, failover_vars, rate_vars, valuation_vars >>

\* line 60, ttl=300: the backend drops the entry
FetchExpire ==
    /\ IsSome(fetch_cache)
    /\ fetch_cache' = None
    /\ UNCHANGED fetch_req
    /\ UNCHANGED << service_vars, governor_vars, cache_vars, failover_vars, rate_vars, valuation_vars >>

\* the caller is done with the outcome
FetchEnd(r) ==
    /\ fetch_req[r].pc \in { "returned", "raised", "cancelled" }
    /\ fetch_req' = [fetch_req EXCEPT ![r] = IdleRequest]
    /\ UNCHANGED fetch_cache
    /\ UNCHANGED << service_vars, governor_vars, cache_vars, failover_vars, rate_vars, valuation_vars >>

FetchNext ==
    \/ \E r \in FetchRequests :
          \/ FetchBegin(r) \/ FetchCacheGet(r) \/ FetchHistory(r) \/ FetchInfo(r)
          \/ FetchCacheSet(r) \/ FetchCancel(r) \/ FetchEnd(r)
    \/ FetchExpire

FetchSpec == Init /\ [][FetchNext]_vars

(***************************************************************************)
(* app/providers/factory.py : ProviderFactory.  One action per provider    *)
(* call (the await of line 30); what follows a call up to the next await   *)
(* or to the end of the function belongs to the same action.               *)
(***************************************************************************)
\* get_providers: Polygon first when an API key is configured, then Yahoo
get_providers(has_key) ==
    IF has_key THEN << "Polygon.io", "YahooFinance" >> ELSE << "YahooFinance" >>

FailoverMethods == { "fetch_price_history", "fetch_ticker_info" }

FailoverTickers == { "AAPL", "EICHERMOT.NS" }

FailoverPayloads == { "full", "short", "empty" }

\* line 32 keeping the first error seen
keep_first_error(last_error, e) == IF IsSome(last_error) THEN last_error ELSE Some(e)

\* line 32: last_error = e
record_error(last_error, e) == Some(e)

\* line 34: raise last_error or RuntimeError("No providers available")
raise_last(last_error) ==
    [ kind |-> "raised", error |-> IF IsSome(last_error) THEN Val(last_error)
                                   ELSE [ type |-> "RuntimeError", provider |-> "" ] ]

FoBegin ==
    /\ fo_run = None
    /\ \E method \in FailoverMethods, ticker \in FailoverTickers, has_key \in BOOLEAN :
          fo_run' = Some([ method |-> method, ticker |-> ticker,
                           providers |-> get_providers(has_key) ])
    /\ fo_calls' = << >>
    /\ fo_last_error' = None
    /\ fo_result' = None
    /\ UNCHANGED << service_vars, governor_vars, cache_vars, fetch_vars, rate_vars, valuation_vars >>

\* lines 27-34: the next provider of the list is called.  When it returns,
\* its value and its name are returned; when it raises, the error is kept
\* and the loop goes on, and past the last provider the kept error is raised.
FoTry ==
    /\ IsSome(fo_run)
    /\ fo_result = None
    /\ Len(fo_calls) < Len(Val(fo_run).providers)
    /\ \E provider \in { Val(fo_run).providers[Len(fo_calls) + 1] } :
          \/ \E payload \in FailoverPayloads :
                /\ fo_calls' = Append(fo_calls, [ provider |-> provider, method |-> Val(fo_run).method,
                                                  ticker |-> Val(fo_run).ticker, outcome |-> "ok",
                                                  payload |-> payload ])
                /\ fo_result' = Some([ kind |-> "returned",
                                       data |-> [ supplier |-> provider, payload |-> payload ],
                                       name |-> provider ])
                /\ UNCHANGED fo_last_error
          \/ \E type \in ProviderErrors :
                \E kept \in { record_error(fo_last_error, [ type |-> type, provider |-> provider ]) } :
                    /\ fo_calls' = Append(fo_calls, [ provider |-> provider, method |-> Val(fo_run).method,
                                                      ticker |-> Val(fo_run).ticker, outcome |-> type,
                                                      payload |-> "" ])
                    /\ fo_last_error' = kept
                    /\ fo_result' = IF Len(fo_calls) + 1 = Len(Val(fo_run).providers)
                                    THEN Some(raise_last(kept)) ELSE None
    /\ UNCHANGED fo_run
    /\ UNCHANGED << service_vars, governor_vars, cache_vars, fetch_vars, rate_vars, valuation_vars >>

\* the task is cancelled while a provider call is awaited: CancelledError
\* is not an Exception and leaves the loop
FoCancel ==
    /\ IsSome(fo_run)
    /\ fo_result = None
    /\ fo_result' = Some([ kind |-> "cancelled" ])
    /\ UNCHANGED << fo_run, fo_calls, fo_last_error >>
    /\ UNCHANGED << service_vars, governor_vars, cache_vars, fetch_vars, rate_vars, valuation_vars >>

FoEnd ==
    /\ IsSome(fo_result)
    /\ fo_run' = None
    /\ fo_calls' = << >>
    /\ fo_last_error' = None
    /\ fo_result' = None
    /\ UNCHANGED << service_vars, governor_vars, cache_vars, fetch_vars, rate_vars, valuation_vars >>

FailoverNext == FoBegin \/ FoTry \/ FoCancel \/ FoEnd

FailoverSpec == Init /\ [][FailoverNext]_vars

(***************************************************************************)
(* The rate limiter.                                                       *)
(***************************************************************************)

\* __init__: Redis is used when the client is built and answers the ping
RateConstruct ==
    /\ rl_mode = None
    /\ \E use_redis \in BOOLEAN : rl_mode' = Some(use_redis)
    /\ UNCHANGED << rl_now, rl_redis, rl_requests, rl_passed, rl_rejected >>
    /\ UNCHANGED << service_vars, governor_vars, cache_vars, fetch_vars, failover_vars, valuation_vars >>

RateTick ==
    /\ rl_now < MaxNow
    /\ rl_now' = rl_now + 1
    /\ UNCHANGED << rl_mode, rl_redis, rl_requests, rl_passed, rl_rejected >>
    /\ UNCHANGED << service_vars, governor_vars, cache_vars, fetch_vars, failover_vars, valuation_vars >>

\* call_next(request)
call_next ==
    /\ rl_passed' = Append(rl_passed, rl_now)
    /\ UNCHANGED rl_rejected

\* JSONResponse(status_code=429)
too_many_requests ==
    /\ rl_rejected' = rl_rejected + 1
    /\ UNCHANGED rl_passed

\* the timestamps younger than the period
recent(requests, now) == SelectSeq(requests, LAMBDA t : now - t < RATE_LIMIT_PERIOD)

\* dispatch in Redis mode: incr of the key of the current fixed window;
\* redis_ok FALSE is a RedisError, caught and passed over
dispatch_redis(redis_ok) ==
    LET window == rl_now \div RATE_LIMIT_PERIOD
        count == rl_redis[window] + 1
    IN  /\ UNCHANGED rl_requests
        /\ IF redis_ok
           THEN /\ rl_redis' = [ rl_redis EXCEPT ![window] = count ]
                /\ IF count > RATE_LIMIT_REQUESTS THEN too_many_requests ELSE call_next
           ELSE /\ UNCHANGED rl_redis
                /\ call_next

\* dispatch in memory: a sliding list of timestamps
dispatch_memory ==
    LET kept == recent(rl_requests, rl_now)
    IN  /\ UNCHANGED rl_redis
        /\ IF Len(kept) >= RATE_LIMIT_REQUESTS
           THEN /\ rl_requests' = kept
                /\ too_many_requests
           ELSE /\ rl_requests' = Append(kept, rl_now)
                /\ call_next

RateDispatch ==
    /\ IsSome(rl_mode)
    /\ Len(rl_passed) < MaxPassed
    /\ rl_rejected < MaxPassed
    /\ IF Val(rl_mode)
       THEN \E redis_ok \in BOOLEAN : dispatch_redis(redis_ok)
       ELSE dispatch_memory
    /\ UNCHANGED << rl_mode, rl_now >>
    /\ UNCHANGED << service_vars, governor_vars, cache_vars, fetch_vars, failover_vars, valuation_vars >>

RateNext == RateConstruct \/ RateTick \/ RateDispatch

RateSpec == Init /\ [][RateNext]_vars

(***************************************************************************)
(* The DCF valuation.  Money is in whole currency units, rates and margins *)
(* in basis points, the dominance in tenths of a percent, per-share values *)
(* in hundredths.                                                          *)
(***************************************************************************)
DEFAULT_DISCOUNT_RATE == 1000

DEFAULT_TERMINAL_GROWTH == 300

\* growth and fcf_margin of the sector benchmarks used here
SECTOR_BENCHMARKS(sector) ==
    IF sector = "Technology" THEN [ growth |-> 2000, fcf_margin |-> 1500 ]
    ELSE [ growth |-> 1000, fcf_margin |-> 1000 ]

\* (1 + dr) ** i, in basis points
RECURSIVE power(_, _)
power(dr, i) == IF i = 0 THEN 10000 ELSE QuoT(power(dr, i - 1) * (10000 + dr), 10000)

\* the loop of compute_pv_components from year i on; m carries
\* effective_revenue, op_margin, target_margin and safe_growth
RECURSIVE stage(_, _, _, _, _, _, _)
stage(m, dr, tg, i, temp_rev, temp_margin, stage_pv) ==
    LET growth == IF i <= 5 THEN m.safe_growth
                  ELSE m.safe_growth - QuoT((m.safe_growth - tg) * (i - 5), 5)
        rev    == QuoT(temp_rev * (10000 + growth), 10000)
        margin == temp_margin + QuoT(m.target_margin - m.op_margin, 10)
        annual_fcf == QuoT(rev * margin, 10000)
        pv     == stage_pv + QuoT(annual_fcf * 10000, power(dr, i))
    IN  IF i = 10 THEN [ stage_pv |-> pv, annual_fcf |-> annual_fcf ]
        ELSE stage(m, dr, tg, i + 1, rev, margin, pv)

\* (total_pv, terminal_pv)
compute_pv_components(m, dr, tg) ==
    LET years == stage(m, dr, tg, 1, m.effective_revenue, m.op_margin, 0)
        terminal_val == QuoT(years.annual_fcf * (10000 + tg), dr - tg)
        terminal_pv  == QuoT(terminal_val * 1000, QuoT(power(dr, 10), 10))
    IN  [ total_pv |-> years.stage_pv + terminal_pv, terminal_pv |-> terminal_pv ]

calculate_dcf(fcf, revenue_growth, shares, total_revenue, fcf_margin, sector) ==
    IF fcf <= 0 \/ ~Truthy(shares)
    THEN [ value |-> None, status |-> "FCF_NEGATIVE", terminal_value_dominance |-> 0 ]
    ELSE
    LET effective_revenue == IF Truthy(total_revenue) /\ Val(total_revenue) > 0
                             THEN Val(total_revenue) ELSE fcf * 10
        bench       == SECTOR_BENCHMARKS(sector)
        growth_cap  == Min(2500, QuoT(bench.growth * 15, 10))
        safe_growth == Min(growth_cap, revenue_growth)
        op_margin   == IF Truthy(fcf_margin) THEN Val(fcf_margin)
                       ELSE QuoT(fcf * 10000, effective_revenue)
        discount_rate == IF op_margin < 1000 THEN DEFAULT_DISCOUNT_RATE + 300
                         ELSE DEFAULT_DISCOUNT_RATE
        terminal_growth == DEFAULT_TERMINAL_GROWTH
        target_margin == Max(500, Min(2500, QuoT(op_margin + bench.fcf_margin, 2)))
        m  == [ effective_revenue |-> effective_revenue, op_margin |-> op_margin,
                target_margin |-> target_margin, safe_growth |-> safe_growth ]
        pv == compute_pv_components(m, discount_rate, terminal_growth)
        tv_dominance == IF pv.total_pv > 0 THEN QuoT(pv.terminal_pv * 1000, pv.total_pv) ELSE 0
        per_share(total) == RoundDiv(total * 100, Val(shares))
    IN  IF tv_dominance > 500
        THEN [ value |-> None, status |-> "MATHEMATICALLY_ILL_POSED",
               terminal_value_dominance |-> tv_dominance ]
        ELSE [ value |-> Some(per_share(pv.total_pv)),
               status |-> "OPERATIONAL",
               raw_value |-> per_share(pv.total_pv),
               range |-> << per_share(compute_pv_components(m, discount_rate + 100,
                                                            terminal_growth - 50).total_pv),
                            per_share(compute_pv_components(m, discount_rate - 100,
                                                            terminal_growth + 50).total_pv) >>,
               terminal_value_dominance |-> tv_dominance,
               terminal_growth_sensitivity |->
                   [ tg \in { 200, 250, 300, 350, 400 } |->
                       per_share(compute_pv_components(m, discount_rate, tg).total_pv) ],
               assumptions |-> [ terminal_growth |-> terminal_growth,
                                 discount_rate |-> discount_rate,
                                 target_margin |-> target_margin,
                                 growth_cap_applied |-> safe_growth < revenue_growth ] ]

\* the calls made: free cash flow absent or 1000, a growth from shrinking to
\* far above the cap, the share count absent or 10, the revenue and the
\* reported FCF margin absent or given (the margin also negative)
DcfInputs ==
    [ fcf : { 0, 1000 }, revenue_growth : { -2000, 500, 1000, 2500, 4000 },
      shares : OptionOf({ 10 }), total_revenue : OptionOf({ 5000 }),
      fcf_margin : OptionOf({ -500, 10, 1000, 3500 }),
      sector : { "Default", "Technology" } ]

DcfCall ==
    /\ \E a \in DcfInputs :
          /\ dcf_args' = Some(a)
          /\ dcf_result' = Some(calculate_dcf(a.fcf, a.revenue_growth, a.shares, a.total_revenue,
                                              a.fcf_margin, a.sector))
    /\ UNCHANGED << service_vars, governor_vars, cache_vars, fetch_vars, failover_vars, rate_vars >>

DcfSpec == Init /\ [][DcfCall]_vars

(***************************************************************************)
(* Properties of the returned Response and of the technical pipeline.      *)
(***************************************************************************)

\* the Response of a finished request
Returned == pc = "done"
Resp == Val(response)

\* the setups the technical pipeline returned: the primary one and each
\* horizon's
PipelineSetups ==
    { Val(tech_resp).trade_setup }
    \cup { Val(Val(tech_resp).horizons[k]) :
             k \in { h \in Horizons : IsSome(Val(tech_resp).horizons[h]) } }

\* the TradingDecisions as they stand after per-horizon processing
PipelineDecisions ==
    { Val(Val(tech_resp).decision_results[k]) :
        k \in { h \in Horizons : IsSome(Val(tech_resp).decision_results[h]) } }

NoHardVeto(vetoes) == \A i \in DOMAIN vetoes : vetoes[i].severity # "HARD"

\* C1: in every returned Response, execution.action = REJECT implies
\* execution.authorized = false.
C1_RejectIsNeverAuthorized ==
    Returned => (Resp.execution.action = "REJECT" => ~Resp.execution.authorized)

\* C2: every setup of the technical pipeline (primary and per horizon) whose
\* action is WAIT or REJECT has null entry zone, stop-loss and take-profit
\* targets and a position size and capital at risk of 0 (an unset value
\* counts as 0 here).
C2_IdleSetupCarriesNothing ==
    IsSome(tech_resp) =>
        \A s \in PipelineSetups :
            s.action \in { "WAIT", "REJECT" } =>
                /\ IsNone(s.entry_zone) /\ IsNone(s.stop_loss) /\ IsNone(s.take_profit_targets)
                /\ OrElse(s.position_size_pct, 0) = 0
                /\ OrElse(s.max_capital_at_risk, 0) = 0

\* C3: every TradingDecision that is REJECT after per-horizon processing has
\* confidence 0, no setup quality and at least one violation rule.
C3_RejectDecisionIsEmpty ==
    IsSome(tech_resp) =>
        \A d \in PipelineDecisions :
            d.decision_state = "REJECT" =>
                d.confidence = 0 /\ IsNone(d.setup_quality) /\ d.violation_rules # << >>

\* C4: every horizon whose final decision is ACCEPT has, in the setup the
\* technical pipeline returns, a BUY or SELL action, a risk/reward ratio of
\* at least 1.0 and non-null stop-loss and take-profit targets.
C4_AcceptedSetupIsComplete ==
    IsSome(tech_resp) =>
        \A k \in Horizons :
            ( /\ IsSome(Val(tech_resp).decision_results[k])
              /\ Val(Val(tech_resp).decision_results[k]).decision_state = "ACCEPT" ) =>
                LET s == Val(Val(tech_resp).horizons[k])
                IN  /\ s.action \in { "BUY", "SELL" }
                    /\ Val(s.risk_reward_ratio) >= 1000
                    /\ IsSome(s.stop_loss) /\ IsSome(s.take_profit_targets)

\* C5: in every Response system.confidence is within [0, 100] and every
\* horizon confidence of ai_analysis is at most system.confidence + 0.01.
C5_NarrativeConfidenceUnderCeiling ==
    Returned =>
        /\ Resp.system.confidence >= 0 /\ Resp.system.confidence <= 100000
        /\ IsSome(Resp.ai_analysis) =>
              \A h \in Horizons :
                  IsSome(Val(Resp.ai_analysis)[h]) =>
                      Val(Val(Resp.ai_analysis)[h]).confidence <= Resp.system.confidence + 10

C7_WaitIsNeverAuthorized ==
    Returned => (Resp.execution.action = "WAIT" => ~Resp.execution.authorized)

\* C8: when the global decision is REJECT and the narrative comes from the
\* LLM (which under REJECT happens only with force_ai), every horizon action
\* of ai_analysis is REJECT or WAIT after the authority layer.
C8_NarrativeFollowsReject ==
    Returned =>
        ( ( /\ Resp.execution.action = "REJECT"
            /\ Resp.llm_called
            /\ IsSome(Resp.ai_analysis) ) =>
              \A h \in Horizons :
                  IsSome(Val(Resp.ai_analysis)[h]) =>
                      Val(Val(Resp.ai_analysis)[h]).action \in { "REJECT", "WAIT" } )

\* C9: in every Response whose data_state_taxonomy marks TECHNICALS as
\* MISSING, system.confidence is 0.0.
C9_NoTechnicalsNoConfidence ==
    Returned =>
        ( << "TECHNICALS", "MISSING" >> \in Resp.system.data_state_taxonomy =>
            Resp.system.confidence = 0 )

\* C10: in every Response whose system.data_quality is DEGRADED,
\* system.confidence is at most 40.
C10_DegradedConfidenceCapped ==
    Returned => (Resp.system.data_quality = "DEGRADED" => Resp.system.confidence <= 40000)

\* C11: a request ends in the terminal failure only when the technical
\* pipeline has no price data to work with; a failing MarketContext,
\* Fundamentals or News sensor does not abort it.
C11_AbortOnlyWithoutPrices ==
    pc = "failed" => Val(failure).prices = {}

\* C12: when the narrative LLM call was attempted and failed (error, timeout
\* or unusable output, so that no narrative came back), the response
\* returned has system.fallback_used = true.
C12_FailedNarrativeIsFallback ==
    (Returned /\ Resp.llm_called /\ IsNone(Resp.ai_analysis)) => Resp.system.fallback_used

\* C13: when the market context shows at least three insider sells in the
\* last 90 days, the response returned has execution.action = REJECT and
\* reports the rule: a veto of type INSIDER_SELLS or the blocking issue
\* RULE_1_INSIDER_SELLS.
C13_InsiderRejectIsReported ==
    ( Returned /\ IsSome(market_context)
      /\ _count_recent_insider_sales(Val(market_context).insider_activity) >= INSIDER_SELL_THRESHOLD )
    => /\ Resp.execution.action = "REJECT"
       /\ \/ \E i \in DOMAIN Resp.execution.vetoes : Resp.execution.vetoes[i].type = "INSIDER_SELLS"
          \/ \E i \in DOMAIN Resp.system.blocking_issues :
                Resp.system.blocking_issues[i] = "RULE_1_INSIDER_SELLS"

\* the swing horizon's Technicals show the capital-shredder regime:
\* atr_percent > 3.0 and adx < 20
SwingIsShredder ==
    /\ IsSome(tech_resp)
    /\ IsSome(Val(tech_resp).technicals)
    /\ NanGt(Val(Val(tech_resp).technicals).atr_percent, Some(3000))
    /\ NanLt(Val(Val(tech_resp).technicals).adx, Some(20000))

\* C14: when a horizon's technicals have atr_percent > 3.0 and adx < 20, the
\* trading system's decision for it is REJECT with setup_state INVALID and
\* position size 0, whatever the scores, the confidence and the context.
C14_ShredderIsRejected ==
    SwingIsShredder =>
        LET dec == Val(Val(tech_resp).decision_results["swing"])
        IN  /\ dec.decision_state = "REJECT"
            /\ dec.setup_state = "INVALID"
            /\ dec.position_size_pct = 0

\* the regime rule itself has produced the swing decision
C14_ShredderRuleFired ==
    /\ SwingIsShredder
    /\ Val(Val(tech_resp).decision_results["swing"]).violation_rules = << "REGIME_CAPITAL_SHREDDER" >>

\* sum of score * weight over the reported components, in millionths
WeightedComponents(signals) ==
    signals.components.trend.score * signals.components.trend.weight
    + signals.components.momentum.score * signals.components.momentum.weight
    + signals.components.expectancy.score * signals.components.expectancy.weight
    + signals.components.valuation.score * signals.components.valuation.weight

\* C15: in every returned response signals.primary_signal_strength differs
\* from the sum of score * weight over the reported components by less than
\* 0.05, or is exactly -1.0 when a HARD veto exists.
C15_SignalIsWeightedSum ==
    Returned =>
        \/ Abs(Resp.signals.primary_signal_strength * 1000 - WeightedComponents(Resp.signals)) < 50000
        \/ ~NoHardVeto(Resp.execution.vetoes) /\ Resp.signals.primary_signal_strength = -1000

\* C16: in every returned response each price in levels.support is at most
\* levels.current + 0.01 and each price in levels.resistance is at least
\* levels.current - 0.01, whatever the action.
C16_LevelsBracketPrice ==
    Returned =>
        /\ \A i \in DOMAIN Resp.levels.support :
              Resp.levels.support[i].price <= Resp.levels.current + 10
        /\ \A i \in DOMAIN Resp.levels.resistance :
              Resp.levels.resistance[i].price >= Resp.levels.current - 10

\* C17: a second call of the governor on the same Technicals, AlgoSignal,
\* MarketContext and ticker returns a TradingDecision identical to the
\* first, whatever calls ran in between and whenever the two calls are made.
C17_SecondCallSameDecision ==
    IsSome(gov_second) => Val(gov_second) = Val(gov_first).decision

\* C18: after any sequence of get, set and close and under any backend
\* failure, the last cache operation has returned to its caller (none
\* raises), and a get has returned null or a value stored under its key.
C18_CacheNeverRaises ==
    IsSome(cache_last) =>
        /\ Val(cache_last).outcome = "returned"
        /\ Val(cache_last).op = "get" =>
              \/ IsNone(Val(cache_last).value)
              \/ \E w \in cache_written :
                    /\ w[1] = Val(cache_last).key
                    /\ json_loads(w[2]) = Val(Val(cache_last).value)

\* C19 as stated: a request that failed or was cancelled has put no entry
\* into the cache, under any interleaving of the requests for the key.
C19_NoWriteUnlessReturned ==
    \A r \in FetchRequests :
        fetch_req[r].pc \in { "raised", "cancelled" } => ~fetch_req[r].wrote

\* C19: a request writes the cache only after both provider fetches
\* succeeded and the frame passed validation; a request that raised has
\* written nothing, a cancelled one only if the cancellation reached it
\* inside the cache write; the entry in the cache is always a whole record
\* of a frame with at least 20 bars.  Under any interleaving of the requests.
C19_WriteOnlyAfterFullFetch ==
    /\ \A r \in FetchRequests :
          fetch_req[r].wrote =>
              /\ fetch_req[r].pc \in { "returned", "cancelled" }
              /\ fetch_req[r].pc = "cancelled" => fetch_req[r].cancelled_at = Some("cache_set")
              /\ IsSome(fetch_req[r].df) /\ Val(fetch_req[r].df).bars >= 20
              /\ IsSome(fetch_req[r].info) /\ IsSome(fetch_req[r].provider)
    /\ IsSome(fetch_cache) =>
          /\ Val(fetch_cache).dataframe.bars >= 20
          /\ Val(fetch_cache).returns = Val(fetch_cache).dataframe.bars - 1
          /\ Val(fetch_cache).current_price = Val(fetch_cache).dataframe.last_close
          /\ Val(fetch_cache).provider \in ProviderNames

\* one request has failed on a short frame while the other has written the
\* entry for the same key
C19_FailureBesideWrite ==
    \E r, q \in FetchRequests :
        /\ r # q
        /\ fetch_req[r].pc = "raised" /\ fetch_req[r].ended = Some("LiquidityHaltError")
        /\ fetch_req[q].wrote
        /\ IsSome(fetch_cache)

\* C20: providers are tried in their fixed order, each with the caller's
\* method and argument; the result comes from the first provider that
\* returns without error and no provider is called after it; if every
\* provider fails the error of the last provider is raised; the name
\* returned with the payload is the name of the provider that supplied it.
C20_FailoverOrder ==
    IsSome(fo_run) =>
        LET providers == Val(fo_run).providers
            n == Len(fo_calls)
        IN  /\ n <= Len(providers)
            /\ \A i \in 1 .. n :
                  /\ fo_calls[i].provider = providers[i]
                  /\ fo_calls[i].method = Val(fo_run).method
                  /\ fo_calls[i].ticker = Val(fo_run).ticker
            /\ \A i \in 1 .. n - 1 : fo_calls[i].outcome # "ok"
            /\ (n > 0 /\ fo_calls[n].outcome = "ok") =>
                  /\ IsSome(fo_result)
                  /\ Val(fo_result).kind = "returned"
            /\ (n = Len(providers) /\ fo_calls[n].outcome # "ok") =>
                  /\ IsSome(fo_result)
                  /\ Val(fo_result).kind = "raised"
                  /\ Val(fo_result).error = [ type |-> fo_calls[n].outcome,
                                              provider |-> fo_calls[n].provider ]
            /\ (IsSome(fo_result) /\ Val(fo_result).kind = "returned") =>
                  /\ n > 0
                  /\ fo_calls[n].outcome = "ok"
                  /\ Val(fo_result).name = fo_calls[n].provider
                  /\ Val(fo_result).data = [ supplier |-> fo_calls[n].provider,
                                             payload |-> fo_calls[n].payload ]
            /\ (IsSome(fo_result) /\ Val(fo_result).kind = "raised") =>
                  /\ n = Len(providers)
                  /\ \A i \in 1 .. n : fo_calls[i].outcome # "ok"

\* the second provider has supplied the payload after the first one failed
C20_FailedOver ==
    /\ IsSome(fo_result)
    /\ Val(fo_result).kind = "returned"
    /\ Len(fo_calls) = 2
    /\ fo_calls[1].outcome # "ok"
    /\ Val(fo_result).name = "YahooFinance"

\* the AlgoSignal of the first governor call watched
FirstSignal ==
    calculate_algo_signal(calculate_advanced_technicals(Val(gov_first).input.row))

\* C21: when no rejection applies, the decision is WAIT exactly when
\* |overall| < 20 or the base confidence (80, -30/-10/+10 by confluence,
\* -10 for HIGH volatility risk, -15 for consensus without ratings) is
\* below 70, and ACCEPT otherwise.
C21_WaitExactlyWhen ==
    (IsSome(gov_first) /\ Val(gov_first).decision.decision_state # "REJECT") =>
        ( Val(gov_first).decision.decision_state = "WAIT"
          <=> \/ Abs(FirstSignal.overall_score) < 20000
              \/ _calculate_base_confidence(
                     calculate_advanced_technicals(Val(gov_first).input.row),
                     FirstSignal, Val(gov_first).input.context) < CONFIDENCE_THRESHOLD )

\* the Technicals of the first governor call watched
FirstTechnicals == calculate_advanced_technicals(Val(gov_first).input.row)

\* C22: the data integrity is INVALID exactly when rsi or macd_histogram is
\* null; otherwise DEGRADED exactly when a poisoned indicator is present
\* (cci null, volume_ratio null, implied volatility > 200) and VALID
\* otherwise; a ticker containing '.' is excused only for missing options
\* or insider data, never for a poisoned indicator.
C22_IntegrityByPoison ==
    IsSome(gov_first) =>
        Val(gov_first).integrity =
            IF IsNone(FirstTechnicals.rsi) \/ IsNone(FirstTechnicals.macd_histogram)
            THEN "INVALID"
            ELSE IF \/ IsNone(FirstTechnicals.cci)
                    \/ IsNone(FirstTechnicals.volume_ratio)
                    \/ /\ IsSome(Val(gov_first).input.context)
                       /\ IsSome(Val(Val(gov_first).input.context).option_sentiment)
                       /\ Val(Val(Val(gov_first).input.context).option_sentiment).implied_volatility
                             > 200000
            THEN "DEGRADED"
            ELSE "VALID"

\* C23: whenever the directions of the intraday, swing and positional
\* horizons disagree (at least one bullish and at least one bearish), the
\* global confidence is the swing decision's confidence halved once.
C23_DisagreementHalves ==
    ( IsSome(tech_resp) /\ IsNone(Val(tech_resp).pre_decision)
      /\ 1 \in Val(tech_resp).dirs /\ -1 \in Val(tech_resp).dirs )
    => Val(tech_resp).data_confidence
          = QuoT(Val(Val(tech_resp).decision_results["swing"]).confidence, 2)

\* whether rule R4 is among the violations of the first decision watched
FirstHasR4 ==
    \E i \in DOMAIN Val(gov_first).decision.violation_rules :
        Val(gov_first).decision.violation_rules[i] = "RULE_4_EARNINGS_PROXIMITY"

\* C24: rule R4 (EARNINGS_PROXIMITY) is violated exactly when
\* 0 <= days_to_earnings <= 14: a decision that carries R4 has its earnings
\* date 0 to 14 days ahead, and a decision that reached the rules with such
\* a date carries R4.
C24_EarningsWindow ==
    IsSome(gov_first) =>
        LET context == Val(gov_first).input.context
            dated   == IsSome(context) /\ IsSome(Val(context).events)
            days_to_earnings == Val(Val(context).events) - Val(gov_first).day
        IN  /\ FirstHasR4 => (dated /\ 0 <= days_to_earnings /\ days_to_earnings <= 14)
            /\ ( dated /\ 0 <= days_to_earnings /\ days_to_earnings <= 14
                 /\ Val(gov_first).decision.primary_reason = "Violates framework rules" )
               => FirstHasR4

\* the calls passed on at a time t with from <= t < from + period
passed_in_window(from) ==
    { i \in DOMAIN rl_passed : from <= rl_passed[i] /\ rl_passed[i] < from + RATE_LIMIT_PERIOD }

\* C25: for the client IP, the requests passed on to the application within
\* any window of one period never exceed the limit, whichever mode the
\* limiter runs in and whether or not Redis raises.
C25_LimitPerWindow ==
    \A from \in 0 .. MaxNow : Cardinality(passed_in_window(from)) <= RATE_LIMIT_REQUESTS

\* a swing series that passed the fetch but is too short for the indicators
ShortSwing(b) == IsSome(b) /\ MIN_BARS <= Val(b) /\ Val(b) < INDICATOR_BARS

\* C26: when the swing price series is fetched but has fewer than 50 bars,
\* the request does not end in the technical pipeline raising, and the
\* Response it returns has execution.action = REJECT, decided by
\* RULE_0_DATA_INTEGRITY unless the pre-screen rejected first.
C26_ShortSeriesIsRejected ==
    /\ (pc = "failed" /\ ShortSwing(Val(failure).swing_bars))
          => Val(failure).cause # "technical_raised"
    /\ (Returned /\ ShortSwing(Val(tech_resp).swing_bars))
          => /\ Resp.execution.action = "REJECT"
             /\ IsNone(Val(tech_resp).pre_decision)
                   => \E i \in DOMAIN Val(Val(tech_resp).decision_results["swing"]).violation_rules :
                         Val(Val(tech_resp).decision_results["swing"]).violation_rules[i]
                            = "RULE_0_DATA_INTEGRITY"

\* the narrative engine was called without force_ai on a pipeline result
\* that is REJECT, or WAIT with a data confidence under 30
BypassCase ==
    /\ Returned /\ Resp.narrative.invoked /\ ~Resp.narrative.force_ai
    /\ \/ Val(tech_resp).decision_state = "REJECT"
       \/ Val(tech_resp).decision_state = "WAIT" /\ Val(tech_resp).data_confidence < 30000

\* C27: in that case the engine makes no external LLM call and returns the
\* template: every horizon carries the primary setup's action with
\* confidence 0 and entry, target and stop 0.
C27_BypassReturnsTemplate ==
    BypassCase =>
        /\ ~Resp.llm_called
        /\ IsSome(Resp.narrative.returned)
        /\ \A h \in Horizons :
              Val(Resp.narrative.returned)[h]
                = Some([ action |-> Val(tech_resp).trade_setup.action, confidence |-> 0,
                         entry_price |-> 0, target_price |-> 0, stop_loss |-> 0 ])

\* the bypass is taken for a WAIT of low data confidence
C27_BypassOnWait == BypassCase /\ Val(tech_resp).decision_state = "WAIT"

\* C29: a Response reports engine_logic HYBRID only when an external LLM
\* call was made for the request and produced the narrative.
C29_HybridOnlyWithLLM ==
    Returned => (Resp.system.engine_logic = "HYBRID" => Resp.llm_called)

\* C28: for a positive free cash flow, a DCF result whose terminal-value
\* dominance exceeds 85% has status TERMINAL_VALUE_DOMINANT_WARNING and a
\* per-share value that is not null.
C28_DominantStillReported ==
    (IsSome(dcf_result) /\ Val(dcf_args).fcf > 0 /\ Val(dcf_result).terminal_value_dominance > 850)
        => /\ Val(dcf_result).status = "TERMINAL_VALUE_DOMINANT_WARNING"
           /\ IsSome(Val(dcf_result).value)

\* the decision of the first call watched, when it is ACCEPT
FirstAccepts == IsSome(gov_first) /\ Val(gov_first).decision.decision_state = "ACCEPT"

\* C30: the max_capital_at_risk of every ACCEPT decision (position size
\* times the stop distance as a fraction of the price, in units of 0.0001
\* percent) is at most the configured max_capital_risk_pct.
C30_CapitalAtRiskBounded ==
    FirstAccepts => Val(gov_first).decision.max_capital_at_risk <= MAX_CAPITAL_RISK_PCT * 10

\* an ACCEPT whose stop is further than a fifth of the price away, where
\* the position cap alone would risk more than the limit
C30_AcceptWithWideStop ==
    /\ FirstAccepts
    /\ Val(gov_first).decision.position_size_pct > 0
    /\ 5 * Abs(Val(Val(gov_first).input.row.EMA_20) - Val(Val(gov_first).decision.stop_loss))
          > Val(Val(gov_first).input.row.EMA_20)

=============================================================================
